---- MODULE Spec2Model ----
(***************************************************************************)
(* Backtest simulator of backend/app/services/backtest/engine.py and the   *)
(* strategy signal functions of backend/app/services/backtest/             *)
(* strategies.py.                                                          *)
(*                                                                         *)
(* Numbers.  The code computes in binary floating point; the model         *)
(* computes in exact integer arithmetic.  Prices of a bar are multiples of *)
(* 100, so that the default stop/target factors 0.95, 1.10, 1.05 and 0.90  *)
(* of an entry price are exact integers.                                   *)
(*                                                                         *)
(* Indices are 0-based as in the code; element idx of an array is          *)
(* closes[idx + 1] of the TLA+ sequence.                                   *)
(*                                                                         *)
(* The bar series is an input fixed before the run.  Iteration idx of the  *)
(* loop reads bar idx only (and the strategies read bars 0..idx only), so  *)
(* the model fixes the length nbars at the start and draws bar idx when    *)
(* iteration idx begins.                                                   *)
(***************************************************************************)
EXTENDS Integers, Sequences, FiniteSets, TLC

VARIABLES
    \* inputs of BacktestEngine._simulate
    nbars,                  \* len(closes)
    highs, lows, closes, volumes,   \* bars 0..idx-1 read so far
    strategy,               \* the Strategy object: [kind, params]
    initial_capital, position_size_percent,
    stop_loss_enabled, take_profit_enabled,
    \* locals of BacktestEngine._simulate
    pc,                     \* "loop", "simulated", "done"
    idx,                    \* next bar index of the for loop
    capital, position, entry_price, entry_date, entry_idx,
    stop_loss, take_profit, quantity,
    trades, equity_curve,
    \* locals of the last loop iteration
    exit_triggered, exit_price, exit_reason,
    signal,                 \* the Signal generate_signal returned
    signal_position,        \* the position argument it was called with
    \* BacktestEngine.run and the module-level singleton
    final_capital,
    metrics,                \* the dict _calculate_metrics returned
    engine,                 \* _engine: "None" or "BacktestEngine"
    run,                    \* "none", "first", "second": which run this is
    previous,               \* the result the first run returned
    error,                  \* the error a rejected request was answered with
    \* IndicatorService and the indicator primitives
    portfolio_value,        \* the portfolio_value argument of calculate_for_symbol
    output,                 \* what the last calculation returned
    \* IndicatorService.execute and MarketScanner.scan_multiple
    symbols,                \* the symbols of the batch, in the caller's order
    min_score, signal_filter,
    results,                \* execute: the results dict; scan_multiple: what
                            \* the scan_symbol tasks that are done returned
    \* MarketScanner.scan_symbol on its own
    patterns,               \* the patterns argument
    detections,             \* what each detector returns on the symbol's candles
    \* WebSocketManager and the event loop it runs on
    sse_queues,             \* _sse_queues: client_id -> the ticks in its queue,
                            \* oldest first
    tick_tasks,             \* the _process_tick tasks in flight: [tick, at]
    ticks_received,         \* how many ticks the feed has delivered
    last_tick               \* the tick of the last _broadcast_to_sse

inputs == <<nbars, strategy, initial_capital, position_size_percent,
            stop_loss_enabled, take_profit_enabled>>
series == <<highs, lows, closes, volumes>>
locals == <<capital, position, entry_price, entry_date, entry_idx,
            stop_loss, take_profit, quantity, trades, equity_curve>>
iteration == <<exit_triggered, exit_price, exit_reason, signal, signal_position>>
caller == <<engine, run, previous, error>>
returned == <<final_capital, metrics>>
batch == <<symbols, min_score, signal_filter, results>>
scan == <<patterns, detections>>
manager == <<sse_queues, tick_tasks, ticks_received, last_tick>>
service == <<portfolio_value, output, batch, scan, manager>>
vars == <<inputs, series, pc, idx, locals, iteration, returned, caller, service>>

----------------------------------------------------------------------------
(* Bounds of the model *)

\* longest bar series
MaxBars == 3

\* price levels of a bar
Prices == {100, 200, 300}

\* bars: flat bars at each level and bars spanning the whole range
Bars ==
    {b \in [high : Prices, low : Prices, close : Prices, volume : {1}] :
        /\ b.low <= b.close /\ b.close <= b.high
        /\ \/ b.high = b.low
           \/ (b.low = 100 /\ b.high = 300 /\ b.close = 200)}

InitialCapitals == {500}
PositionSizePercents == {50, 100}

\* distance from the price of the levels a strategy may put on its signal
LevelDistance == CHOOSE d \in Prices : \A p \in Prices : d <= p

----------------------------------------------------------------------------
(* Values *)

\* the position flag is 1 for long, -1 for short and 0 for flat

\* Optional[float]: <<>> is None, <<x>> is the value x
None == <<>>
Some(x) == <<x>>

\* Python `x or d` on an Optional[float]: None and 0.0 are both falsy
Or(x, d) == IF x = None \/ x[1] = 0 THEN d ELSE x[1]

\* Python int(n / d) for d > 0: truncation toward zero
IntDiv(n, d) == IF n >= 0 THEN n \div d ELSE -((-n) \div d)

\* price * p / 100, exact because prices are multiples of 100
Percent(price, p) == (price * p) \div 100

\* timestamps[i]: the i-th bar's date
Timestamp(i) == i

Last(s) == s[Len(s)]

RECURSIVE SumPnl(_)
SumPnl(ts) == IF ts = <<>> THEN 0 ELSE Last(ts).pnl + SumPnl(SubSeq(ts, 1, Len(ts) - 1))

\* Signal(signal_type, price, stop_loss, take_profit, reason)
Signal(t, price, sl, tp, reason) ==
    [signal_type |-> t, price |-> price, stop_loss |-> sl,
     take_profit |-> tp, reason |-> reason]

\* Trade(...)
Trade(edate, eprice, xdate, xprice, dir, qty, pnl, hold, reason) ==
    [entry_date |-> edate, entry_price |-> eprice, exit_date |-> xdate,
     exit_price |-> xprice, direction |-> dir, quantity |-> qty, pnl |-> pnl,
     \* pnl_percent = pnl / (entry_price * quantity) * 100 as <<numerator, denominator>>
     pnl_percent |-> <<pnl * 100, eprice * qty>>,
     hold_duration |-> hold, exit_reason |-> reason]

----------------------------------------------------------------------------
(* A Strategy subclass of any kind: generate_signal may return any Signal *)

AnySignals(price) ==
    {Signal("HOLD", price, None, None, "hold")}
    \cup {Signal("BUY", price, None, None, "buy signal"),
          Signal("BUY", price, Some(price - LevelDistance),
                 Some(price + LevelDistance), "buy signal")}
    \cup {Signal("SELL", price, None, None, "sell signal"),
          Signal("SELL", price, Some(price + LevelDistance),
                 Some(price - LevelDistance), "sell signal")}

----------------------------------------------------------------------------
(* Indicator values: exact rationals <<numerator, denominator>> in lowest terms *)
(* with a positive denominator; NaN, the undefined sentinel, is <<0, 0>>.       *)
(* Arithmetic on NaN gives NaN and every comparison with NaN is false.          *)

NaN == <<0, 0>>
IsNaN(x) == x[2] = 0

Abs(n) == IF n < 0 THEN -n ELSE n

RECURSIVE Gcd(_, _)
Gcd(a, b) == IF b = 0 THEN a ELSE Gcd(b, a % b)

Rat(n, d) ==
    LET g == Gcd(Abs(n), Abs(d))
    IN  IF d < 0 THEN <<(-n) \div g, (-d) \div g>> ELSE <<n \div g, d \div g>>

R(n) == <<n, 1>>

\* sums over the least common denominator
RAdd(a, b) == IF IsNaN(a) \/ IsNaN(b) THEN NaN
              ELSE LET g == Gcd(a[2], b[2])
                   IN  Rat(a[1] * (b[2] \div g) + b[1] * (a[2] \div g),
                           (a[2] \div g) * b[2])
RSub(a, b) == IF IsNaN(a) \/ IsNaN(b) THEN NaN ELSE RAdd(a, <<-b[1], b[2]>>)
\* products cancel common factors before they multiply
RMul(a, b) == IF IsNaN(a) \/ IsNaN(b) THEN NaN
              ELSE LET g == Gcd(Abs(a[1]), b[2])
                       h == Gcd(Abs(b[1]), a[2])
                   IN  Rat((a[1] \div g) * (b[1] \div h),
                           (a[2] \div h) * (b[2] \div g))
\* a / b; 0 / 0 is NaN, and the code divides nothing else by zero
RDiv(a, b) == IF IsNaN(a) \/ IsNaN(b) \/ b[1] = 0 THEN NaN
              ELSE IF b[1] < 0 THEN RMul(a, <<-b[2], -b[1]>>)
              ELSE RMul(a, <<b[2], b[1]>>)
RAbs(a) == <<Abs(a[1]), a[2]>>

\* comparisons of the whole parts, then of the fractions over the least common
\* denominator
RLt(a, b) == /\ ~IsNaN(a) /\ ~IsNaN(b)
             /\ LET g == Gcd(a[2], b[2])
                    wa == a[1] \div a[2]
                    wb == b[1] \div b[2]
                IN  \/ wa < wb
                    \/ /\ wa = wb
                       /\ (a[1] % a[2]) * (b[2] \div g) < (b[1] % b[2]) * (a[2] \div g)
RLe(a, b) == /\ ~IsNaN(a) /\ ~IsNaN(b)
             /\ LET g == Gcd(a[2], b[2])
                    wa == a[1] \div a[2]
                    wb == b[1] \div b[2]
                IN  \/ wa < wb
                    \/ /\ wa = wb
                       /\ (a[1] % a[2]) * (b[2] \div g) <= (b[1] % b[2]) * (a[2] \div g)
RGt(a, b) == RLt(b, a)
RGe(a, b) == RLe(b, a)
RMax(a, b) == IF RGt(b, a) THEN b ELSE a

\* an array of prices as an array of indicator values
ToRat(a) == [i \in 1..Len(a) |-> R(a[i])]

\* a level computed from indicator values as a price of the simulator; exact
\* whenever the level is integral, which it is for every series shorter than the
\* ATR period, where the strategies use the bar's range for the ATR
Money(r) == r[1] \div r[2]

\* arr[:idx + 1]
Slice(arr, i) == SubSeq(arr, 1, i + 1)

\* np.sum: the sum of the two halves of the array
RECURSIVE RSum(_)
RSum(a) == IF a = <<>> THEN R(0)
           ELSE IF Len(a) = 1 THEN a[1]
           ELSE RAdd(RSum(SubSeq(a, 1, Len(a) \div 2)),
                     RSum(SubSeq(a, Len(a) \div 2 + 1, Len(a))))

\* np.mean of a non-empty array
Mean(a) == RDiv(RSum(a), R(Len(a)))

AllNaN(n) == [i \in 1..n |-> NaN]

----------------------------------------------------------------------------
(* indicators/calculations.py *)

\* lines 52-54: result[i] = (data[i] - result[i - 1]) * multiplier + result[i - 1]
EmaStep(data, period, result) ==
    LET prev == Last(result)
        multiplier == Rat(2, period + 1)
    IN  Append(result,
               RAdd(RMul(RSub(data[Len(result) + 1], prev), multiplier), prev))

\* the loop of lines 52-54 up to the element `to`: its first half, then its
\* second half
RECURSIVE EmaUpTo(_, _, _, _)
EmaUpTo(data, period, result, to) ==
    CHOOSE out \in
        {IF Len(r) >= to THEN r
         ELSE IF Len(r) + 1 = to THEN EmaStep(data, period, r)
         ELSE EmaUpTo(data, period,
                      EmaUpTo(data, period, r, (Len(r) + to) \div 2), to) :
            r \in {result}} : TRUE

\* lines 52-54: the loop over the elements after the first value
EmaLoop(data, period, result) == EmaUpTo(data, period, result, Len(data))

\* ema that starts from the value at period - 1 instead of the average
EmaSeededWithValue(data, period) ==
    IF Len(data) < period THEN AllNaN(Len(data))
    ELSE EmaLoop(data, period,
                 [i \in 1..period |-> IF i < period THEN NaN ELSE data[period]])

\* ema(data, period), period >= 1
ema(data, period) ==
    IF Len(data) < period THEN AllNaN(Len(data))
    ELSE EmaLoop(data, period,
                 [i \in 1..period |-> IF i < period THEN NaN
                                      ELSE Mean(SubSeq(data, 1, period))])

\* the RSI without the branch for an average loss of zero
RsiValueDividing(avg_gain, avg_loss) ==
    RSub(R(100), RDiv(R(100), RAdd(R(1), RDiv(avg_gain, avg_loss))))

\* lines 96-101 and 108-112: the RSI of an average gain and an average loss
RsiValue(avg_gain, avg_loss) ==
    IF avg_loss = R(0) THEN R(100)
    ELSE RSub(R(100), RDiv(R(100), RAdd(R(1), RDiv(avg_gain, avg_loss))))

\* lines 104-112: the smoothed averages and the value of one more element;
\* deltas[i - 1] of the code is element Len(s.result) of gains and losses
RsiStep(gains, losses, period, s) ==
    LET i == Len(s.result)
        g == RDiv(RAdd(RMul(s.avg_gain, R(period - 1)), gains[i]), R(period))
        l == RDiv(RAdd(RMul(s.avg_loss, R(period - 1)), losses[i]), R(period))
    IN  CHOOSE out \in {[avg_gain |-> gl[1], avg_loss |-> gl[2],
                         result |-> Append(s.result, RsiValue(gl[1], gl[2]))] :
                            gl \in {<<g, l>>}} : TRUE

\* the loop of lines 103-112 up to the element `to`: its first half, then its
\* second half
RECURSIVE RsiUpTo(_, _, _, _, _)
RsiUpTo(gains, losses, period, state, to) ==
    CHOOSE out \in
        {IF Len(s.result) >= to THEN s
         ELSE IF Len(s.result) + 1 = to THEN RsiStep(gains, losses, period, s)
         ELSE RsiUpTo(gains, losses, period,
                      RsiUpTo(gains, losses, period, s,
                              (Len(s.result) + to) \div 2), to) :
            s \in {state}} : TRUE

\* lines 103-112: the loop over the elements after the first value
RsiLoop(gains, losses, period, avg_gain, avg_loss, result) ==
    RsiUpTo(gains, losses, period,
            [avg_gain |-> avg_gain, avg_loss |-> avg_loss, result |-> result],
            Len(gains) + 1).result

\* rsi(closes, period), period >= 1
rsi(cl, period) ==
    IF Len(cl) < period + 1 THEN AllNaN(Len(cl))
    ELSE LET deltas == [i \in 1..(Len(cl) - 1) |-> RSub(cl[i + 1], cl[i])]
             gains == [i \in 1..Len(deltas) |->
                          IF RGt(deltas[i], R(0)) THEN deltas[i] ELSE R(0)]
             losses == [i \in 1..Len(deltas) |->
                          IF RLt(deltas[i], R(0)) THEN RSub(R(0), deltas[i]) ELSE R(0)]
             avg_gain == Mean(SubSeq(gains, 1, period))
             avg_loss == Mean(SubSeq(losses, 1, period))
         IN  RsiLoop(gains, losses, period, avg_gain, avg_loss,
                     [i \in 1..(period + 1) |-> IF i <= period THEN NaN
                                                ELSE RsiValue(avg_gain, avg_loss)])

\* macd(closes, fast_period, slow_period, signal_period)
macd(cl, fast_period, slow_period, signal_period) ==
    LET fast_ema == ema(cl, fast_period)
        slow_ema == ema(cl, slow_period)
        macd_line == [i \in 1..Len(cl) |-> RSub(fast_ema[i], slow_ema[i])]
        signal_line == ema(macd_line, signal_period)
    IN  [macd_line |-> macd_line, signal_line |-> signal_line,
         histogram |-> [i \in 1..Len(cl) |-> RSub(macd_line[i], signal_line[i])]]

\* atr(highs, lows, closes, period)
atr(hi, lo, cl, period) ==
    IF Len(cl) < 2 THEN AllNaN(Len(cl))
    ELSE LET tr == [i \in 1..Len(cl) |->
                      IF i = 1 THEN RSub(hi[1], lo[1])
                      ELSE RMax(RMax(RSub(hi[i], lo[i]),
                                     RAbs(RSub(hi[i], cl[i - 1]))),
                                RAbs(RSub(lo[i], cl[i - 1])))]
         IN  ema(tr, period)

\* sma that averages the values there are while the window is not full
SmaOfPrefix(data, period) ==
    [i \in 1..Len(data) |->
        Mean(SubSeq(data, IF i < period THEN 1 ELSE i - period + 1, i))]

\* sma(data, period), period >= 1
sma(data, period) ==
    IF Len(data) < period THEN AllNaN(Len(data))
    ELSE [i \in 1..Len(data) |->
             IF i < period THEN NaN ELSE Mean(SubSeq(data, i - period + 1, i))]

\* np.sum(window * weights) with weights 1..period
RECURSIVE WeightedSum(_, _)
WeightedSum(window, n) ==
    IF n = 0 THEN R(0)
    ELSE RAdd(RMul(window[n], R(n)), WeightedSum(window, n - 1))

\* wma(data, period), period >= 1
wma(data, period) ==
    IF Len(data) < period THEN AllNaN(Len(data))
    ELSE [i \in 1..Len(data) |->
             IF i < period THEN NaN
             ELSE RDiv(WeightedSum(SubSeq(data, i - period + 1, i), period),
                       R((period * (period + 1)) \div 2))]

\* np.max and np.min of a non-empty window
RECURSIVE RMaxOf(_)
RMaxOf(a) == IF Len(a) = 1 THEN a[1]
             ELSE RMax(RMaxOf(SubSeq(a, 1, Len(a) \div 2)),
                       RMaxOf(SubSeq(a, Len(a) \div 2 + 1, Len(a))))
RECURSIVE RMinOf(_)
RMinOf(a) == IF Len(a) = 1 THEN a[1]
             ELSE LET m == RMinOf(SubSeq(a, Len(a) \div 2 + 1, Len(a)))
                      k == RMinOf(SubSeq(a, 1, Len(a) \div 2))
                  IN  IF RLt(m, k) THEN m ELSE k

\* stochastic(highs, lows, closes, k_period, d_period)
stochastic(hi, lo, cl, k_period, d_period) ==
    IF Len(cl) < k_period THEN [k |-> AllNaN(Len(cl)), d |-> AllNaN(Len(cl))]
    ELSE LET k == [i \in 1..Len(cl) |->
                     IF i < k_period THEN NaN
                     ELSE LET highest_high == RMaxOf(SubSeq(hi, i - k_period + 1, i))
                              lowest_low == RMinOf(SubSeq(lo, i - k_period + 1, i))
                          IN  IF highest_high = lowest_low THEN R(50)
                              ELSE RMul(RDiv(RSub(cl[i], lowest_low),
                                             RSub(highest_high, lowest_low)), R(100))]
         IN  [k |-> k, d |-> sma(k, d_period)]

\* williams_r(highs, lows, closes, period)
williams_r(hi, lo, cl, period) ==
    IF Len(cl) < period THEN AllNaN(Len(cl))
    ELSE [i \in 1..Len(cl) |->
             IF i < period THEN NaN
             ELSE LET highest_high == RMaxOf(SubSeq(hi, i - period + 1, i))
                      lowest_low == RMinOf(SubSeq(lo, i - period + 1, i))
                  IN  IF highest_high = lowest_low THEN R(-50)
                      ELSE RMul(RDiv(RSub(highest_high, cl[i]),
                                     RSub(highest_high, lowest_low)), R(-100))]

\* the largest k with k * k <= n, for n >= 0
RECURSIVE ISqrtFrom(_, _)
ISqrtFrom(n, k) == IF (k + 1) * (k + 1) > n THEN k ELSE ISqrtFrom(n, k + 1)

\* np.std of a non-empty window: the root of the mean squared deviation, which
\* the model rounds down to a whole number
Std(window) ==
    LET m == Mean(window)
        sq == [i \in 1..Len(window) |-> RMul(RSub(window[i], m), RSub(window[i], m))]
        variance == Mean(sq)
    IN  IF IsNaN(variance) THEN NaN ELSE R(ISqrtFrom(variance[1] \div variance[2], 0))

\* bollinger_bands(closes, period, std_dev)
bollinger_bands(cl, period, std_dev) ==
    LET middle == sma(cl, period)
        std == [i \in 1..Len(cl) |->
                   IF i < period THEN NaN ELSE Std(SubSeq(cl, i - period + 1, i))]
        upper == [i \in 1..Len(cl) |-> RAdd(middle[i], RMul(std_dev, std[i]))]
        lower == [i \in 1..Len(cl) |-> RSub(middle[i], RMul(std_dev, std[i]))]
    IN  [upper |-> upper, middle |-> middle, lower |-> lower,
         bandwidth |-> [i \in 1..Len(cl) |-> RDiv(RSub(upper[i], lower[i]), middle[i])],
         percent_b |-> [i \in 1..Len(cl) |->
                           RDiv(RSub(cl[i], lower[i]), RSub(upper[i], lower[i]))]]

\* np.nan_to_num(x, nan=0)
NanToNum(x) == IF IsNaN(x) THEN R(0) ELSE x

\* adx(highs, lows, closes, period)
adx(hi, lo, cl, period) ==
    IF Len(cl) < period + 1
    THEN [adx |-> AllNaN(Len(cl)), plus_di |-> AllNaN(Len(cl)),
          minus_di |-> AllNaN(Len(cl))]
    ELSE LET up_move(i) == RSub(hi[i], hi[i - 1])
             down_move(i) == RSub(lo[i - 1], lo[i])
             plus_dm == [i \in 1..Len(cl) |->
                            IF i > 1 /\ RGt(up_move(i), down_move(i))
                                     /\ RGt(up_move(i), R(0))
                            THEN up_move(i) ELSE R(0)]
             minus_dm == [i \in 1..Len(cl) |->
                            IF i > 1 /\ RGt(down_move(i), up_move(i))
                                     /\ RGt(down_move(i), R(0))
                            THEN down_move(i) ELSE R(0)]
             tr == [i \in 1..Len(cl) |->
                      IF i = 1 THEN RSub(hi[1], lo[1])
                      ELSE RMax(RMax(RSub(hi[i], lo[i]),
                                     RAbs(RSub(hi[i], cl[i - 1]))),
                                RAbs(RSub(lo[i], cl[i - 1])))]
             smoothed_plus_dm == ema(plus_dm, period)
             smoothed_minus_dm == ema(minus_dm, period)
             smoothed_tr == ema(tr, period)
             plus_di == [i \in 1..Len(cl) |->
                           NanToNum(RMul(R(100), RDiv(smoothed_plus_dm[i], smoothed_tr[i])))]
             minus_di == [i \in 1..Len(cl) |->
                           NanToNum(RMul(R(100), RDiv(smoothed_minus_dm[i], smoothed_tr[i])))]
             dx == [i \in 1..Len(cl) |->
                      NanToNum(RDiv(RMul(R(100), RAbs(RSub(plus_di[i], minus_di[i]))),
                                    RAdd(plus_di[i], minus_di[i])))]
         IN  [adx |-> ema(dx, period), plus_di |-> plus_di, minus_di |-> minus_di]

\* get_last_valid(arr): the last value that is not NaN, None if there is none
get_last_valid(arr) ==
    LET valid == {i \in 1..Len(arr) : ~IsNaN(arr[i])}
    IN  IF valid = {} THEN None
        ELSE Some(arr[CHOOSE i \in valid : \A j \in valid : j <= i])

----------------------------------------------------------------------------
(* backtest/strategies.py: the four shipped strategies.  A strategy object is  *)
(* a record of its kind and parameters; the arrays hi, lo, cl, vol hold the    *)
(* bars the call may read and i is the bar index idx.                          *)

\* the period of the ATR every strategy computes for its levels
ATR_PERIOD == 14

\* current_atr: the last ATR value, or the bar's range while the ATR is undefined
CurrentAtr(i, hi, lo, cl) ==
    LET atr_values == atr(ToRat(Slice(hi, i)), ToRat(Slice(lo, i)),
                          ToRat(Slice(cl, i)), ATR_PERIOD)
    IN  IF ~IsNaN(Last(atr_values)) THEN Last(atr_values)
        ELSE R(hi[i + 1] - lo[i + 1])

Hold(price, reason) == Signal("HOLD", price, None, None, reason)

\* AtrBuy with the levels of a SELL
AtrBuyLevelsOfSell(price, current_atr, mult, reason) ==
    Signal("BUY", price,
           Some(Money(RAdd(R(price), RMul(current_atr, mult)))),
           Some(Money(RSub(R(price), RMul(RMul(current_atr, mult), R(2))))),
           reason)

\* the levels at distance atr * atr_multiplier below/above (BUY), above/below (SELL)
AtrBuy(price, current_atr, mult, reason) ==
    Signal("BUY", price,
           Some(Money(RSub(R(price), RMul(current_atr, mult)))),
           Some(Money(RAdd(R(price), RMul(RMul(current_atr, mult), R(2))))),
           reason)

AtrSell(price, current_atr, mult, reason) ==
    Signal("SELL", price,
           Some(Money(RAdd(R(price), RMul(current_atr, mult)))),
           Some(Money(RSub(R(price), RMul(RMul(current_atr, mult), R(2))))),
           reason)

\* EMACrossover that looks at the data one bar earlier
EMACrossoverEarly(st, i, hi, lo, cl, vol, pos) ==
    IF i < st.slow_period THEN Hold(cl[i + 1], "Insufficient data")
    ELSE LET fast_ema == ema(ToRat(Slice(cl, i)), st.fast_period)
             slow_ema == ema(ToRat(Slice(cl, i)), st.slow_period)
             current_fast == fast_ema[i + 1]
             current_slow == slow_ema[i + 1]
             prev_fast == fast_ema[i]
             prev_slow == slow_ema[i]
             current_atr == CurrentAtr(i, hi, lo, cl)
             current_price == cl[i + 1]
         IN  IF RLe(prev_fast, prev_slow) /\ RGt(current_fast, current_slow) /\ pos <= 0
             THEN AtrBuy(current_price, current_atr, st.atr_multiplier, "Golden cross")
             ELSE IF RGe(prev_fast, prev_slow) /\ RLt(current_fast, current_slow)
                     /\ pos >= 0
             THEN AtrSell(current_price, current_atr, st.atr_multiplier, "Death cross")
             ELSE Hold(current_price, "No crossover")

\* EMACrossoverStrategy.generate_signal
EMACrossover(st, i, hi, lo, cl, vol, pos) ==
    IF i < st.slow_period + 1 THEN Hold(cl[i + 1], "Insufficient data")
    ELSE LET fast_ema == ema(ToRat(Slice(cl, i)), st.fast_period)
             slow_ema == ema(ToRat(Slice(cl, i)), st.slow_period)
             current_fast == fast_ema[i + 1]
             current_slow == slow_ema[i + 1]
             prev_fast == fast_ema[i]
             prev_slow == slow_ema[i]
             current_atr == CurrentAtr(i, hi, lo, cl)
             current_price == cl[i + 1]
         IN  IF RLe(prev_fast, prev_slow) /\ RGt(current_fast, current_slow) /\ pos <= 0
             THEN AtrBuy(current_price, current_atr, st.atr_multiplier, "Golden cross")
             ELSE IF RGe(prev_fast, prev_slow) /\ RLt(current_fast, current_slow)
                     /\ pos >= 0
             THEN AtrSell(current_price, current_atr, st.atr_multiplier, "Death cross")
             ELSE Hold(current_price, "No crossover")

\* RSIReversalStrategy.generate_signal
RSIReversal(st, i, hi, lo, cl, vol, pos) ==
    IF i < st.period + 2 THEN Hold(cl[i + 1], "Insufficient data")
    ELSE LET rsi_values == rsi(ToRat(Slice(cl, i)), st.period)
             current_rsi == rsi_values[i + 1]
             prev_rsi == rsi_values[i]
             current_atr == CurrentAtr(i, hi, lo, cl)
             current_price == cl[i + 1]
         IN  IF RLt(prev_rsi, R(st.oversold)) /\ RGe(current_rsi, R(st.oversold))
                /\ pos <= 0
             THEN AtrBuy(current_price, current_atr, st.atr_multiplier,
                         "RSI crossed above oversold")
             ELSE IF RGt(prev_rsi, R(st.overbought))
                     /\ RLe(current_rsi, R(st.overbought)) /\ pos >= 0
             THEN AtrSell(current_price, current_atr, st.atr_multiplier,
                          "RSI crossed below overbought")
             ELSE Hold(current_price, "RSI")

RECURSIVE MaxOf(_)
MaxOf(a) == IF Len(a) = 1 THEN a[1] ELSE LET m == MaxOf(Tail(a))
                                         IN IF a[1] >= m THEN a[1] ELSE m
RECURSIVE MinOf(_)
MinOf(a) == IF Len(a) = 1 THEN a[1] ELSE LET m == MinOf(Tail(a))
                                         IN IF a[1] <= m THEN a[1] ELSE m

\* Breakout without the tests of the position flag
BreakoutAnyPosition(st, i, hi, lo, cl, vol, pos) ==
    IF i < st.lookback + 5 THEN Hold(cl[i + 1], "Insufficient data")
    ELSE LET current_price == cl[i + 1]
             current_volume == vol[i + 1]
             recent_high == MaxOf(SubSeq(hi, i - st.lookback + 1, i - 2))
             recent_low == MinOf(SubSeq(lo, i - st.lookback + 1, i - 2))
             avg_volume == Mean(ToRat(SubSeq(vol, i - st.lookback + 1, i - 1)))
             current_atr == CurrentAtr(i, hi, lo, cl)
             volume_ratio == IF RGt(avg_volume, R(0))
                             THEN RDiv(R(current_volume), avg_volume) ELSE R(1)
         IN  IF current_price > recent_high /\ RGe(volume_ratio, st.volume_threshold)
             THEN Signal("BUY", current_price,
                         Some(Money(RSub(R(recent_high), current_atr))),
                         Some(current_price + (current_price - recent_high) * 2),
                         "Bullish breakout")
             ELSE IF current_price < recent_low
                     /\ RGe(volume_ratio, st.volume_threshold)
             THEN Signal("SELL", current_price,
                         Some(Money(RAdd(R(recent_low), current_atr))),
                         Some(current_price - (recent_low - current_price) * 2),
                         "Bearish breakdown")
             ELSE Hold(current_price, "No breakout")

\* BreakoutStrategy.generate_signal, lookback >= 3 (a shorter lookback makes the
\* window highs[idx - lookback : idx - 2] empty)
Breakout(st, i, hi, lo, cl, vol, pos) ==
    IF i < st.lookback + 5 THEN Hold(cl[i + 1], "Insufficient data")
    ELSE LET current_price == cl[i + 1]
             current_volume == vol[i + 1]
             \* arr[idx - lookback : idx - 2] and volumes[idx - lookback : idx - 1]
             recent_high == MaxOf(SubSeq(hi, i - st.lookback + 1, i - 2))
             recent_low == MinOf(SubSeq(lo, i - st.lookback + 1, i - 2))
             avg_volume == Mean(ToRat(SubSeq(vol, i - st.lookback + 1, i - 1)))
             current_atr == CurrentAtr(i, hi, lo, cl)
             volume_ratio == IF RGt(avg_volume, R(0))
                             THEN RDiv(R(current_volume), avg_volume) ELSE R(1)
         IN  IF current_price > recent_high /\ RGe(volume_ratio, st.volume_threshold)
                /\ pos <= 0
             THEN Signal("BUY", current_price,
                         Some(Money(RSub(R(recent_high), current_atr))),
                         Some(current_price + (current_price - recent_high) * 2),
                         "Bullish breakout")
             ELSE IF current_price < recent_low
                     /\ RGe(volume_ratio, st.volume_threshold) /\ pos >= 0
             THEN Signal("SELL", current_price,
                         Some(Money(RAdd(R(recent_low), current_atr))),
                         Some(current_price - (recent_low - current_price) * 2),
                         "Bearish breakdown")
             ELSE Hold(current_price, "No breakout")

\* MACDStrategy.generate_signal
MACD(st, i, hi, lo, cl, vol, pos) ==
    IF i < st.slow_period + st.signal_period + 2
    THEN Hold(cl[i + 1], "Insufficient data")
    ELSE LET m == macd(ToRat(Slice(cl, i)), st.fast_period, st.slow_period,
                       st.signal_period)
             current_macd == m.macd_line[i + 1]
             current_signal == m.signal_line[i + 1]
             prev_macd == m.macd_line[i]
             prev_signal == m.signal_line[i]
             current_atr == CurrentAtr(i, hi, lo, cl)
             current_price == cl[i + 1]
         IN  IF RLe(prev_macd, prev_signal) /\ RGt(current_macd, current_signal)
                /\ pos <= 0
             THEN AtrBuy(current_price, current_atr, st.atr_multiplier,
                         "MACD bullish crossover")
             ELSE IF RGe(prev_macd, prev_signal) /\ RLt(current_macd, current_signal)
                     /\ pos >= 0
             THEN AtrSell(current_price, current_atr, st.atr_multiplier,
                          "MACD bearish crossover")
             ELSE Hold(current_price, "No MACD crossover")

\* strategy.generate_signal(idx, opens, highs, lows, closes, volumes, position)
generate_signal(st, i, hi, lo, cl, vol, pos) ==
    CASE st.kind = "ema_crossover" -> EMACrossover(st, i, hi, lo, cl, vol, pos)
      [] st.kind = "rsi_reversal" -> RSIReversal(st, i, hi, lo, cl, vol, pos)
      [] st.kind = "breakout" -> Breakout(st, i, hi, lo, cl, vol, pos)
      [] st.kind = "macd" -> MACD(st, i, hi, lo, cl, vol, pos)

\* the first bar index at which a strategy looks at the data
MinIndex(st) ==
    CASE st.kind = "ema_crossover" -> st.slow_period + 1
      [] st.kind = "rsi_reversal" -> st.period + 2
      [] st.kind = "breakout" -> st.lookback + 5
      [] st.kind = "macd" -> st.slow_period + st.signal_period + 2

\* get_strategy(strategy_type, params) for the four kinds, with short periods
ShippedStrategies ==
    {[kind |-> "ema_crossover", fast_period |-> 1, slow_period |-> 2,
      atr_multiplier |-> R(2)],
     [kind |-> "rsi_reversal", period |-> 1, overbought |-> 70, oversold |-> 30,
      atr_multiplier |-> Rat(3, 2)],
     [kind |-> "breakout", lookback |-> 3, volume_threshold |-> R(1),
      atr_multiplier |-> R(2)],
     [kind |-> "macd", fast_period |-> 1, slow_period |-> 2, signal_period |-> 1,
      atr_multiplier |-> R(2)]}

\* bars of the series the shipped strategies run on
StrategyBars ==
    {[high |-> 100, low |-> 100, close |-> 100, volume |-> 1],
     [high |-> 200, low |-> 200, close |-> 200, volume |-> 1],
     [high |-> 300, low |-> 100, close |-> 200, volume |-> 1]}

\* bars of a series from the first bar a strategy looks at: a series of the
\* shipped strategies has MinIndex + 1 to MinIndex + MaxSignalBars bars
MaxSignalBars == 2

\* a series of the shipped strategies opens with a quiet stretch, one flat bar
\* repeated, and ends with at most FreeBars bars drawn freely from StrategyBars
FreeBars == 4

\* the bars bar i of such a series is drawn from
SeriesBars(i) ==
    IF i >= nbars - FreeBars THEN StrategyBars
    ELSE IF i = 0 THEN {b \in StrategyBars : b.high = b.low}
    ELSE {[high |-> highs[1], low |-> lows[1], close |-> closes[1],
           volume |-> volumes[1]]}

----------------------------------------------------------------------------
(* The loop body of _simulate *)

\* lines 231-254: which exit the bar triggers for the open position
StopHit(bar) ==
    \/ position = 1 /\ stop_loss_enabled /\ bar.low <= stop_loss
    \/ position = -1 /\ stop_loss_enabled /\ bar.high >= stop_loss

TargetHit(bar) ==
    \/ position = 1 /\ take_profit_enabled /\ bar.high >= take_profit
    \/ position = -1 /\ take_profit_enabled /\ bar.low <= take_profit

\* ExitCheck with the take-profit tested before the stop-loss
ExitCheckTargetFirst(bar) ==
    IF position # 0 /\ TargetHit(bar)
    THEN [triggered |-> TRUE, price |-> take_profit, reason |-> "Take profit hit"]
    ELSE IF position # 0 /\ StopHit(bar)
    THEN [triggered |-> TRUE, price |-> stop_loss, reason |-> "Stop loss hit"]
    ELSE [triggered |-> FALSE, price |-> bar.close, reason |-> ""]

ExitCheck(bar) ==
    IF position # 0 /\ StopHit(bar)
    THEN [triggered |-> TRUE, price |-> stop_loss, reason |-> "Stop loss hit"]
    ELSE IF position # 0 /\ TargetHit(bar)
    THEN [triggered |-> TRUE, price |-> take_profit, reason |-> "Take profit hit"]
    ELSE [triggered |-> FALSE, price |-> bar.close, reason |-> ""]

\* AfterExit that records the exit but leaves the position flag as it was, so
\* that the strategy is called with the position that was just closed
AfterExitKeepingFlag(bar) ==
    LET ex == ExitCheck(bar)
        pnl == IF position = 1 THEN (ex.price - entry_price) * quantity
               ELSE (entry_price - ex.price) * quantity
    IN  IF ex.triggered
        THEN [capital |-> capital + pnl, position |-> position, quantity |-> quantity,
              trades |-> Append(trades,
                  Trade(entry_date, entry_price, Timestamp(idx), ex.price,
                        IF position = 1 THEN "LONG" ELSE "SHORT",
                        quantity, pnl, idx - entry_idx, ex.reason))]
        ELSE [capital |-> capital, position |-> position, quantity |-> quantity,
              trades |-> trades]

\* lines 256-280: the state after the exit check
AfterExit(bar) ==
    LET ex == ExitCheck(bar)
        pnl == IF position = 1 THEN (ex.price - entry_price) * quantity
               ELSE (entry_price - ex.price) * quantity
    IN  IF ex.triggered
        THEN [capital |-> capital + pnl, position |-> 0, quantity |-> 0,
              trades |-> Append(trades,
                  Trade(entry_date, entry_price, Timestamp(idx), ex.price,
                        IF position = 1 THEN "LONG" ELSE "SHORT",
                        quantity, pnl, idx - entry_idx, ex.reason))]
        ELSE [capital |-> capital, position |-> position, quantity |-> quantity,
              trades |-> trades]

\* OpenPosition that opens only positions of two shares or more
OpenPositionOfSeveral(s, dir, sig, price) ==
    LET position_value_x100 == s.capital * position_size_percent
        qty == IntDiv(position_value_x100, 100 * price)
    IN  IF qty > 1
        THEN [s EXCEPT !.position = dir, !.quantity = qty,
                       !.entry_price = price, !.entry_date = Timestamp(idx),
                       !.entry_idx = idx,
                       !.stop_loss = IF dir = 1
                                     THEN Or(sig.stop_loss, Percent(price, 95))
                                     ELSE Or(sig.stop_loss, Percent(price, 105)),
                       !.take_profit = IF dir = 1
                                     THEN Or(sig.take_profit, Percent(price, 110))
                                     ELSE Or(sig.take_profit, Percent(price, 90))]
        ELSE [s EXCEPT !.quantity = qty]

\* OpenPosition that takes the bar after the current one as the entry bar
OpenPositionDatedNextBar(s, dir, sig, price) ==
    LET position_value_x100 == s.capital * position_size_percent
        qty == IntDiv(position_value_x100, 100 * price)
    IN  IF qty > 0
        THEN [s EXCEPT !.position = dir, !.quantity = qty,
                       !.entry_price = price, !.entry_date = Timestamp(idx),
                       !.entry_idx = idx + 1,
                       !.stop_loss = IF dir = 1
                                     THEN Or(sig.stop_loss, Percent(price, 95))
                                     ELSE Or(sig.stop_loss, Percent(price, 105)),
                       !.take_profit = IF dir = 1
                                     THEN Or(sig.take_profit, Percent(price, 110))
                                     ELSE Or(sig.take_profit, Percent(price, 90))]
        ELSE [s EXCEPT !.quantity = qty]

\* lines 306-315 and 337-346: size and open a new position
OpenPosition(s, dir, sig, price) ==
    LET position_value_x100 == s.capital * position_size_percent
        qty == IntDiv(position_value_x100, 100 * price)
    IN  IF qty > 0
        THEN [s EXCEPT !.position = dir, !.quantity = qty,
                       !.entry_price = price, !.entry_date = Timestamp(idx),
                       !.entry_idx = idx,
                       !.stop_loss = IF dir = 1
                                     THEN Or(sig.stop_loss, Percent(price, 95))
                                     ELSE Or(sig.stop_loss, Percent(price, 105)),
                       !.take_profit = IF dir = 1
                                     THEN Or(sig.take_profit, Percent(price, 110))
                                     ELSE Or(sig.take_profit, Percent(price, 90))]
        ELSE [s EXCEPT !.quantity = qty]

\* CloseOpposite that records the trade without adding its pnl to capital
CloseOppositeKeepingCapital(s, sig, price) ==
    LET pnl == IF s.position = -1 THEN (s.entry_price - price) * s.quantity
               ELSE (price - s.entry_price) * s.quantity
    IN  [s EXCEPT !.trades = Append(s.trades,
                      Trade(s.entry_date, s.entry_price, Timestamp(idx), price,
                            IF s.position = -1 THEN "SHORT" ELSE "LONG",
                            s.quantity, pnl, idx - s.entry_idx, sig.reason))]

\* lines 288-304 and 319-335: close the opposite position at the bar's close
CloseOpposite(s, sig, price) ==
    LET pnl == IF s.position = -1 THEN (s.entry_price - price) * s.quantity
               ELSE (price - s.entry_price) * s.quantity
    IN  [s EXCEPT !.capital = s.capital + pnl,
                  !.trades = Append(s.trades,
                      Trade(s.entry_date, s.entry_price, Timestamp(idx), price,
                            IF s.position = -1 THEN "SHORT" ELSE "LONG",
                            s.quantity, pnl, idx - s.entry_idx, sig.reason))]

\* lines 285-346: execute the signal
ExecuteSignal(s, sig, price) ==
    IF sig.signal_type = "BUY" /\ s.position <= 0
    THEN OpenPosition(IF s.position = -1 THEN CloseOpposite(s, sig, price) ELSE s,
                      1, sig, price)
    ELSE IF sig.signal_type = "SELL" /\ s.position >= 0
    THEN OpenPosition(IF s.position = 1 THEN CloseOpposite(s, sig, price) ELSE s,
                      -1, sig, price)
    ELSE s

\* UnrealizedPnl that values a short position as if it were long
UnrealizedPnlAsLong(s, price) ==
    IF s.position # 0 THEN (price - s.entry_price) * s.quantity ELSE 0

\* lines 348-361: mark to market
UnrealizedPnl(s, price) ==
    IF s.position = 1 THEN (price - s.entry_price) * s.quantity
    ELSE IF s.position = -1 THEN (s.entry_price - price) * s.quantity
    ELSE 0

EquityPoint(s, price) ==
    [date |-> Timestamp(idx), price |-> price,
     equity |-> s.capital + UnrealizedPnl(s, price), position |-> s.position]


\* one iteration of `for idx in range(len(closes))` on bar `bar`, with `sig` the
\* Signal generate_signal returns when called with the position after the exit check
Iteration(bar, sig) ==
    LET ex == ExitCheck(bar)
        a == AfterExit(bar)
        s0 == [capital |-> a.capital, position |-> a.position,
               quantity |-> a.quantity, trades |-> a.trades,
               entry_price |-> entry_price, entry_date |-> entry_date,
               entry_idx |-> entry_idx, stop_loss |-> stop_loss,
               take_profit |-> take_profit]
        s == ExecuteSignal(s0, sig, bar.close)
    IN  /\ exit_triggered' = ex.triggered
        /\ exit_price' = ex.price
        /\ exit_reason' = ex.reason
        /\ signal' = sig
        /\ signal_position' = a.position
        /\ capital' = s.capital
        /\ position' = s.position
        /\ quantity' = s.quantity
        /\ trades' = s.trades
        /\ entry_price' = s.entry_price
        /\ entry_date' = s.entry_date
        /\ entry_idx' = s.entry_idx
        /\ stop_loss' = s.stop_loss
        /\ take_profit' = s.take_profit
        /\ equity_curve' = Append(equity_curve, EquityPoint(s, bar.close))
        /\ idx' = idx + 1

\* the bar the iteration reads: drawn from `bars` when this is the first run over
\* the series, bar idx of the series when the series is run again
ReadBar(bar, bars) ==
    IF run = "first"
    THEN /\ bar \in bars
         /\ highs' = Append(highs, bar.high)
         /\ lows' = Append(lows, bar.low)
         /\ closes' = Append(closes, bar.close)
         /\ volumes' = Append(volumes, bar.volume)
    ELSE /\ bar = [high |-> highs[idx + 1], low |-> lows[idx + 1],
                   close |-> closes[idx + 1], volume |-> volumes[idx + 1]]
         /\ UNCHANGED series

\* ForcedClose that counts the bars of the series instead of the last index
ForcedCloseCountingBars ==
    LET current_price == Last(closes)
        pnl == IF position = 1 THEN (current_price - entry_price) * quantity
               ELSE (entry_price - current_price) * quantity
    IN  Trade(entry_date, entry_price, Timestamp(nbars - 1), current_price,
              IF position = 1 THEN "LONG" ELSE "SHORT",
              quantity, pnl, Len(closes) - entry_idx,
              "End of backtest period")

\* lines 363-386: the Trade Record of the position still open after the last bar
ForcedClose ==
    LET current_price == Last(closes)
        pnl == IF position = 1 THEN (current_price - entry_price) * quantity
               ELSE (entry_price - current_price) * quantity
    IN  Trade(entry_date, entry_price, Timestamp(nbars - 1), current_price,
              IF position = 1 THEN "LONG" ELSE "SHORT",
              quantity, pnl, Len(closes) - 1 - entry_idx,
              "End of backtest period")

\* StartSimulate that keeps the trades list of the call before
StartSimulateKeepingTrades ==
    /\ trades' = trades
    /\ equity_curve' = <<>>
    /\ capital' = initial_capital
    /\ position' = 0
    /\ entry_price' = 0
    /\ entry_date' = 0
    /\ entry_idx' = 0
    /\ stop_loss' = 0
    /\ take_profit' = 0
    /\ quantity' = 0
    /\ idx' = 0
    /\ pc' = "loop"

\* lines 215-225: the locals of a call of _simulate
StartSimulate ==
    /\ trades' = <<>>
    /\ equity_curve' = <<>>
    /\ capital' = initial_capital
    /\ position' = 0
    /\ entry_price' = 0
    /\ entry_date' = 0
    /\ entry_idx' = 0
    /\ stop_loss' = 0
    /\ take_profit' = 0
    /\ quantity' = 0
    /\ idx' = 0
    /\ pc' = "loop"

\* what run() returns: trades, equity_curve, final_capital and the metrics of
\* the BacktestResult
BacktestResult ==
    [trades |-> trades, equity_curve |-> equity_curve, final_capital |-> final_capital,
     metrics |-> metrics]

----------------------------------------------------------------------------
(* _calculate_metrics.  The metrics that need a square root (sharpe_ratio) or *)
(* are plain averages are left out of the dict.                               *)

\* round(x, 2) on an exact value: the nearest multiple of 1/100, ties to even
Round2(r) ==
    IF IsNaN(r) THEN NaN
    ELSE LET whole == r[1] \div r[2]
             n == (r[1] - whole * r[2]) * 100
             q == whole * 100 + n \div r[2]
             rem == n % r[2]
         IN  IF 2 * rem < r[2] THEN Rat(q, 100)
             ELSE IF 2 * rem > r[2] THEN Rat(q + 1, 100)
             ELSE IF q % 2 = 0 THEN Rat(q, 100) ELSE Rat(q + 1, 100)

IsWin(pnl) == pnl > 0
IsLoss(pnl) == pnl < 0

RECURSIVE Sum(_)
Sum(a) == IF a = <<>> THEN 0 ELSE a[1] + Sum(Tail(a))

\* ProfitFactor that is 0 for a list without a losing trade
ProfitFactorZeroWithoutLoss(ts) ==
    LET pnls == [i \in 1..Len(ts) |-> ts[i].pnl]
        winning_pnls == SelectSeq(pnls, IsWin)
        losing_pnls == SelectSeq(pnls, IsLoss)
        gross_profit == IF winning_pnls # <<>> THEN Sum(winning_pnls) ELSE 0
        gross_loss == IF losing_pnls # <<>> THEN Abs(Sum(losing_pnls)) ELSE 0
    IN  IF gross_loss > 0 THEN Rat(gross_profit, gross_loss) ELSE R(0)

\* lines 420-436: profit_factor before rounding
ProfitFactor(ts) ==
    LET pnls == [i \in 1..Len(ts) |-> ts[i].pnl]
        winning_pnls == SelectSeq(pnls, IsWin)
        losing_pnls == SelectSeq(pnls, IsLoss)
        gross_profit == IF winning_pnls # <<>> THEN Sum(winning_pnls) ELSE 0
        gross_loss == IF losing_pnls # <<>> THEN Abs(Sum(losing_pnls)) ELSE 0
    IN  IF gross_loss > 0 THEN Rat(gross_profit, gross_loss) ELSE R(gross_profit)

\* DrawdownLoop measuring every drop from the first equity value
RECURSIVE DrawdownLoopFromFirst(_, _, _)
DrawdownLoopFromFirst(equity_values, i, t) ==
    IF i > Len(equity_values) THEN t
    ELSE LET equity == equity_values[i]
             peak == t.peak
             drawdown == peak - equity
         IN  DrawdownLoopFromFirst(equity_values, i + 1,
                 IF drawdown > t.max_drawdown
                 THEN [peak |-> peak, max_drawdown |-> drawdown,
                       max_drawdown_percent |-> RMul(RDiv(R(drawdown), R(peak)), R(100))]
                 ELSE [t EXCEPT !.peak = peak])

\* lines 444-450: the tracker after the equity values from index i on
RECURSIVE DrawdownLoop(_, _, _)
DrawdownLoop(equity_values, i, t) ==
    IF i > Len(equity_values) THEN t
    ELSE LET equity == equity_values[i]
             peak == IF equity > t.peak THEN equity ELSE t.peak
             drawdown == peak - equity
         IN  DrawdownLoop(equity_values, i + 1,
                 IF drawdown > t.max_drawdown
                 THEN [peak |-> peak, max_drawdown |-> drawdown,
                       max_drawdown_percent |-> RMul(RDiv(R(drawdown), R(peak)), R(100))]
                 ELSE [t EXCEPT !.peak = peak])

\* lines 438-450: max_drawdown and max_drawdown_percent before rounding, for a
\* non-empty list of equity values
MaxDrawdown(equity_values) ==
    DrawdownLoop(equity_values, 1,
                 [peak |-> equity_values[1], max_drawdown |-> 0,
                  max_drawdown_percent |-> R(0)])

\* _calculate_metrics(trades, equity_curve, initial_capital)
_calculate_metrics(ts, curve, initial) ==
    IF ts = <<>>
    THEN [total_return |-> R(0), total_return_percent |-> R(0), total_trades |-> 0,
          winning_trades |-> 0, losing_trades |-> 0, win_rate |-> R(0),
          profit_factor |-> R(0), max_drawdown |-> R(0),
          max_drawdown_percent |-> R(0)]
    ELSE LET pnls == [i \in 1..Len(ts) |-> ts[i].pnl]
             equity_values == [i \in 1..Len(curve) |-> curve[i].equity]
             dd == MaxDrawdown(equity_values)
         IN  [total_return |-> Round2(R(Sum(pnls))),
              total_return_percent |-> Round2(RMul(RDiv(R(Sum(pnls)), R(initial)), R(100))),
              total_trades |-> Len(ts),
              winning_trades |-> Len(SelectSeq(pnls, IsWin)),
              losing_trades |-> Len(SelectSeq(pnls, IsLoss)),
              win_rate |-> Round2(RMul(Rat(Len(SelectSeq(pnls, IsWin)), Len(ts)), R(100))),
              profit_factor |-> Round2(ProfitFactor(ts)),
              max_drawdown |-> Round2(R(dd.max_drawdown)),
              max_drawdown_percent |-> Round2(dd.max_drawdown_percent)]

----------------------------------------------------------------------------
(* Actions *)

\* no batch has been asked for
NoBatch ==
    /\ symbols = <<>> /\ min_score = 0 /\ signal_filter = None
    /\ patterns = None /\ detections = <<>>

\* before the first request: no engine, no run
InitState ==
    /\ initial_capital \in InitialCapitals
    /\ position_size_percent \in PositionSizePercents
    /\ stop_loss_enabled \in BOOLEAN
    /\ take_profit_enabled \in BOOLEAN
    /\ highs = <<>> /\ lows = <<>> /\ closes = <<>> /\ volumes = <<>>
    /\ pc = "idle"
    /\ idx = 0
    /\ trades = <<>>
    /\ equity_curve = <<>>
    /\ capital = 0
    /\ position = 0
    /\ entry_price = 0
    /\ entry_date = 0
    /\ entry_idx = 0
    /\ stop_loss = 0
    /\ take_profit = 0
    /\ quantity = 0
    /\ exit_triggered = FALSE /\ exit_price = 0 /\ exit_reason = ""
    /\ signal = Signal("HOLD", 0, None, None, "")
    /\ signal_position = 0
    /\ final_capital = 0
    /\ metrics = <<>>
    /\ engine = "None"
    /\ run = "none"
    /\ previous = <<>>
    /\ error = None
    /\ output = None
    /\ results = <<>>
    /\ sse_queues = <<>>
    /\ tick_tasks = {}
    /\ ticks_received = 0
    /\ last_tick = None

Init ==
    /\ nbars \in 1..MaxBars
    /\ strategy = [kind |-> "any"]
    /\ portfolio_value = None
    /\ NoBatch
    /\ InitState

\* get_backtest_engine (lines 493-498), then run() up to the first loop iteration
Run ==
    /\ pc = "idle"
    /\ engine' = "BacktestEngine"
    /\ run' = "first"
    /\ StartSimulate
    /\ UNCHANGED <<service, inputs, series, iteration, returned, previous, error>>

\* lines 227-361, the strategy being any Strategy subclass
SimulateBar ==
    /\ pc = "loop"
    /\ idx < nbars
    /\ \E bar \in Bars :
          /\ ReadBar(bar, Bars)
          /\ \E sig \in AnySignals(bar.close) : Iteration(bar, sig)
    /\ UNCHANGED <<service, inputs, pc, returned, caller>>

\* lines 363-388: close any open position at the end
CloseAtEnd ==
    /\ pc = "loop"
    /\ idx = nbars
    /\ pc' = "simulated"
    /\ trades' = IF position # 0 THEN Append(trades, ForcedClose) ELSE trades
    /\ UNCHANGED <<service, inputs, series, idx, capital, position, entry_price, entry_date,
                   entry_idx, stop_loss, take_profit, quantity, equity_curve,
                   iteration, returned, caller>>

\* BacktestEngine.run, lines 162-192: the result
Result ==
    /\ pc = "simulated"
    /\ pc' = "done"
    /\ final_capital' = IF equity_curve # <<>> THEN Last(equity_curve).equity
                        ELSE initial_capital
    /\ metrics' = _calculate_metrics(trades, equity_curve, initial_capital)
    /\ UNCHANGED <<service, inputs, series, idx, locals, iteration, caller>>

Next == Run \/ SimulateBar \/ CloseAtEnd \/ Result

Spec == Init /\ [][Next]_vars

\* a run of one of the four shipped strategies, the whole capital in a position
InitShipped ==
    /\ strategy \in ShippedStrategies
    /\ nbars \in (MinIndex(strategy) + 1)..(MinIndex(strategy) + MaxSignalBars)
    /\ InitState
    /\ position_size_percent = 100
    /\ portfolio_value = None
    /\ NoBatch

\* lines 227-361, the strategy being the shipped strategy of the run
SimulateStrategyBar ==
    /\ pc = "loop"
    /\ idx < nbars
    /\ \E bar \in StrategyBars :
          /\ ReadBar(bar, SeriesBars(idx))
          /\ \E sig \in {generate_signal(strategy, idx, highs', lows', closes',
                                         volumes', AfterExit(bar).position)} :
                Iteration(bar, sig)
    /\ UNCHANGED <<service, inputs, pc, returned, caller>>

\* a second request for the same backtest: get_backtest_engine returns the
\* engine it made, get_strategy makes a new strategy object of the same kind and
\* parameters, _simulate starts with new locals
RunAgain ==
    /\ pc = "done"
    /\ run = "first"
    /\ run' = "second"
    /\ previous' = BacktestResult
    /\ StartSimulate
    /\ UNCHANGED <<service, inputs, series, iteration, returned, engine, error>>

\* the values of StrategyType, which are the keys of get_strategy's table
StrategyTypes == {"ema_crossover", "rsi_reversal", "breakout", "macd"}

\* strategy identifiers a caller may send besides the four lower-case ones
OtherIdentifiers == {"MACD", "momentum", ""}

\* str.lower() on these identifiers
Lower(id) == IF id = "MACD" THEN "macd" ELSE id

\* the places a strategy identifier comes in
EntryPoints == {"run_backtest", "run_quick_backtest", "get_strategy"}

\* whether the entry point turns the identifier down: the endpoints look the
\* lower-cased identifier up in StrategyType, get_strategy the identifier as it
\* is in its table
Unknown(entry, id) ==
    IF entry = "get_strategy" THEN id \notin StrategyTypes
    ELSE Lower(id) \notin StrategyTypes

\* the error for an unknown identifier: the exception, the text before the
\* identifier, the identifier and the identifiers the message lists
StrategyError(entry, id) ==
    CASE entry = "run_backtest" ->
            [raised |-> "HTTPException 400", text |-> "Invalid strategy",
             identifier |-> id, valid_options |-> StrategyTypes]
      [] entry = "run_quick_backtest" ->
            [raised |-> "HTTPException 400", text |-> "Invalid strategy",
             identifier |-> id, valid_options |-> {}]
      [] entry = "get_strategy" ->
            [raised |-> "ValueError", text |-> "Unknown strategy",
             identifier |-> id, valid_options |-> {}]

\* a request or call with an unknown strategy identifier; the endpoints have
\* called get_backtest_engine before they look at the identifier
Reject ==
    /\ pc = "idle"
    /\ \E entry \in EntryPoints : \E id \in OtherIdentifiers :
          /\ Unknown(entry, id)
          /\ error' = Some(StrategyError(entry, id))
          /\ engine' = IF entry = "get_strategy" THEN engine ELSE "BacktestEngine"
    /\ pc' = "failed"
    /\ UNCHANGED <<service, inputs, series, idx, locals, iteration, returned, run, previous>>

NextShipped == Run \/ SimulateStrategyBar \/ CloseAtEnd \/ Result \/ RunAgain \/ Reject

SpecShipped == InitShipped /\ [][NextShipped]_vars

----------------------------------------------------------------------------
(* indicators/service.py: IndicatorService.calculate_for_symbol.  Of the      *)
(* snapshot the model keeps the price data and the risk metrics, and of the   *)
(* trend family the trend direction; the momentum, volatility, volume and     *)
(* level families are left out.                                               *)

\* fewer candles than this are insufficient data
MIN_CANDLES == 20

\* the ATR period of the risk metrics
RISK_ATR_PERIOD == 14

\* risk_percent: float = 1.0
DefaultRiskPercent == R(1)

\* get_last_valid(arr) or default: None and 0.0 are falsy
ROr(x, d) == IF x = None \/ x[1] = R(0) THEN d ELSE x[1]

\* the periods of the two averages the trend direction compares
EMA_MID == 21
EMA_SLOW == 50

\* a trend direction that compares the price with the averages and not the
\* averages with each other
TrendWithoutOrder(current, ema_21, ema_50) ==
    [ema_21 |-> ema_21, ema_50 |-> ema_50,
     trend_direction |->
        IF RGt(current, ema_21) /\ RGt(current, ema_50) THEN "BULLISH"
        ELSE IF RLt(current, ema_21) /\ RLt(current, ema_50) THEN "BEARISH"
        ELSE "SIDEWAYS"]

\* _calculate_trend_indicators, lines 164-171: the trend direction, with EMA21
\* and EMA50 before they are rounded
TrendOf(current, ema_21, ema_50) ==
    [ema_21 |-> ema_21, ema_50 |-> ema_50,
     trend_direction |->
        IF RGt(current, ema_21) /\ RGt(current, ema_50) /\ RGt(ema_21, ema_50)
        THEN "BULLISH"
        ELSE IF RLt(current, ema_21) /\ RLt(current, ema_50) /\ RLt(ema_21, ema_50)
        THEN "BEARISH"
        ELSE "SIDEWAYS"]

\* an undefined average replaced by zero instead of the current close
TrendWithZeroDefault(cl) ==
    CHOOSE t \in {TrendOf(Last(cl), ROr(get_last_valid(ema(cl, EMA_MID)), R(0)),
                          ROr(get_last_valid(ema(cl, EMA_SLOW)), R(0)))} : TRUE

\* lines 150-151: ema_21 = get_last_valid(ema(closes, 21)) or closes[-1], and
\* ema_50 likewise
_calculate_trend_indicators(cl) ==
    CHOOSE t \in {TrendOf(Last(cl), ROr(get_last_valid(ema(cl, EMA_MID)), Last(cl)),
                          ROr(get_last_valid(ema(cl, EMA_SLOW)), Last(cl)))} : TRUE

\* int(x): truncation towards zero
Truncate(r) == IF r[1] >= 0 THEN r[1] \div r[2] ELSE -((-r[1]) \div r[2])

\* _calculate_risk_metrics from line 367 on, atr_val being known: the arguments
\* of PositionSizing(...) and RiskMetrics(...)
RiskMetricsOf(atr_val, current_price, pv, risk_percent) ==
    LET atr_pct == RMul(RDiv(atr_val, current_price), R(100))
        sl_distance == RMul(Rat(3, 2), atr_val)
        suggested_sl == RSub(current_price, sl_distance)
        sl_percent == RMul(RDiv(sl_distance, current_price), R(100))
        suggested_tp ==
            <<Round2(RAdd(current_price, RMul(sl_distance, Rat(3, 2)))),
              Round2(RAdd(current_price, RMul(sl_distance, Rat(5, 2)))),
              Round2(RAdd(current_price, RMul(sl_distance, Rat(7, 2))))>>
        sized == pv # None /\ pv[1] # R(0)
        risk_amount == IF sized THEN RMul(pv[1], RDiv(risk_percent, R(100)))
                       ELSE R(0)
        shares == IF sized
                  THEN IF RGt(sl_distance, R(0))
                       THEN Truncate(RDiv(risk_amount, sl_distance)) ELSE 0
                  ELSE 0
        position_value == IF sized THEN RMul(R(shares), current_price) ELSE R(0)
    IN  [atr |-> Round2(atr_val),
         atr_percent |-> Round2(atr_pct),
         suggested_sl |-> Round2(suggested_sl),
         suggested_sl_percent |-> Round2(sl_percent),
         suggested_tp |-> suggested_tp,
         risk_reward_ratios |-> <<Rat(3, 2), Rat(5, 2), Rat(7, 2)>>,
         position_sizing |->
             [recommended_shares |-> shares,
              recommended_value |-> Round2(position_value),
              risk_amount |-> Round2(risk_amount),
              risk_percent |-> risk_percent,
              method |-> "atr"],
         volatility_zone |->
             IF RLt(atr_pct, R(1)) THEN "low"
             ELSE IF RLt(atr_pct, Rat(5, 2)) THEN "normal"
             ELSE IF RLt(atr_pct, R(4)) THEN "high"
             ELSE "extreme"]

\* _calculate_risk_metrics: atr_val (lines 365-366), then the rest
_calculate_risk_metrics(current_price, hi, lo, cl, pv, risk_percent) ==
    CHOOSE rm \in {RiskMetricsOf(atr_val, current_price, pv, risk_percent) :
                      atr_val \in {ROr(get_last_valid(atr(hi, lo, cl, RISK_ATR_PERIOD)),
                                       RMul(current_price, Rat(2, 100)))}} : TRUE

\* schemas/indicators.py: the fields of PositionSizing whose Field constraint
\* the value breaks
PositionSizingInvalid(ps) ==
    {f \in {"recommended_shares"} : ~(ps.recommended_shares >= 0)}
    \cup {f \in {"recommended_value"} : ~RGe(ps.recommended_value, R(0))}
    \cup {f \in {"risk_amount"} : ~RGe(ps.risk_amount, R(0))}
    \cup {f \in {"risk_percent"} :
             ~(RGe(ps.risk_percent, R(0)) /\ RLe(ps.risk_percent, R(100)))}

\* schemas/indicators.py: the fields of RiskMetrics whose Field constraint the
\* value breaks
RiskMetricsInvalid(rm) ==
    {f \in {"atr"} : ~RGe(rm.atr, R(0))}
    \cup {f \in {"atr_percent"} : ~RGe(rm.atr_percent, R(0))}
    \cup {f \in {"suggested_sl"} : ~RGt(rm.suggested_sl, R(0))}
    \cup {f \in {"suggested_sl_percent"} : ~RGe(rm.suggested_sl_percent, R(0))}

\* calculate_for_symbol from line 121 on, the risk metrics being computed: the
\* error of the model that turns its arguments down, or the snapshot
SnapshotOf(rm, hi, lo, cl, vol) ==
    LET current == cl[Len(cl)]
        prev_close == IF Len(cl) > 1 THEN cl[Len(cl) - 1] ELSE current
    IN  IF PositionSizingInvalid(rm.position_sizing) # {}
        THEN [raised |-> "ValidationError", model |-> "PositionSizing",
              fields |-> PositionSizingInvalid(rm.position_sizing)]
        ELSE IF RiskMetricsInvalid(rm) # {}
        THEN [raised |-> "ValidationError", model |-> "RiskMetrics",
              fields |-> RiskMetricsInvalid(rm)]
        ELSE [raised |-> "",
              price |-> [current |-> current, high |-> hi[Len(hi)],
                         low |-> lo[Len(lo)], previous_close |-> prev_close,
                         change |-> current - prev_close,
                         volume |-> vol[Len(vol)]],
              risk_metrics |-> rm]

\* calculate_for_symbol: what it raises, or the snapshot it returns
calculate_for_symbol(hi, lo, cl, vol, pv, risk_percent) ==
    IF Len(cl) < MIN_CANDLES
    THEN [raised |-> "ValueError", text |-> "Insufficient data"]
    ELSE CHOOSE r \in {SnapshotOf(rm, hi, lo, cl, vol) :
                          rm \in {_calculate_risk_metrics(R(cl[Len(cl)]), ToRat(hi),
                                      ToRat(lo), ToRat(cl), pv, risk_percent)}} : TRUE

\* the window the primitives are applied with
Window == 20

\* the lengths of the candle series: empty, one to five candles, and one
\* candle less than, as many as and one more than the window
CandleLengths == {0, 1, 2, 3, 4, 5, Window - 1, Window, Window + 1}

\* the longest of the short periods ema and rsi are applied with
MaxPeriod == 3

\* the most values an average is smoothed over after its first one
MaxSmoothed == 3

\* the periods ema and rsi are applied with
Periods == (1..MaxPeriod) \cup {Window}

\* the candles candle i of a series is drawn from: a series opens with one
\* candle repeated and ends with at most FreeBars candles drawn freely
CandleBars(i) ==
    IF i >= nbars - FreeBars \/ i = 0 THEN StrategyBars
    ELSE {[high |-> highs[1], low |-> lows[1], close |-> closes[1],
           volume |-> volumes[1]]}

\* the portfolio values a caller passes: none, or 10000
PortfolioValues == {None, Some(R(10000))}

\* every windowed primitive applied to the series with the same window
Primitives(hi, lo, cl, period) ==
    LET bb == bollinger_bands(cl, period, R(2))
        st == stochastic(hi, lo, cl, period, 3)
        dm == adx(hi, lo, cl, period)
        mc == macd(cl, 12, 26, 9)
    IN  [sma |-> <<sma(cl, period)>>,
         ema |-> <<ema(cl, period)>>,
         wma |-> <<wma(cl, period)>>,
         rsi |-> <<rsi(cl, period)>>,
         stochastic |-> <<st.k, st.d>>,
         williams_r |-> <<williams_r(hi, lo, cl, period)>>,
         atr |-> <<atr(hi, lo, cl, period)>>,
         bollinger_bands |-> <<bb.upper, bb.middle, bb.lower, bb.bandwidth,
                               bb.percent_b>>,
         adx |-> <<dm.adx, dm.plus_di, dm.minus_di>>,
         macd |-> <<mc.macd_line, mc.signal_line, mc.histogram>>]

\* the fewest values a primitive needs before any of its outputs is defined:
\* the length below which it returns early, or below which its moving average
\* does
MinimumWindow(name, period) ==
    CASE name \in {"rsi", "adx"} -> period + 1
      [] name = "macd" -> 26
      [] OTHER -> period

\* the service before it is given a series
InitIndicators ==
    /\ nbars \in CandleLengths
    /\ strategy = [kind |-> "none"]
    /\ portfolio_value \in PortfolioValues
    /\ NoBatch
    /\ InitState
    /\ position_size_percent = 100
    /\ stop_loss_enabled = FALSE
    /\ take_profit_enabled = FALSE

\* the next candle of the series arrives
ReadCandle ==
    /\ pc = "idle"
    /\ Len(closes) < nbars
    /\ \E bar \in CandleBars(Len(closes)) :
          /\ highs' = Append(highs, bar.high)
          /\ lows' = Append(lows, bar.low)
          /\ closes' = Append(closes, bar.close)
          /\ volumes' = Append(volumes, bar.volume)
    /\ UNCHANGED <<inputs, pc, idx, locals, iteration, returned, caller, service>>

\* calculate_for_symbol on the series
CalculateForSymbol ==
    /\ pc = "idle"
    /\ Len(closes) = nbars
    /\ pc' = "calculated"
    /\ \E r \in {calculate_for_symbol(highs, lows, closes, volumes,
                                       portfolio_value, DefaultRiskPercent)} :
          IF r.raised # "" THEN error' = Some(r) /\ output' = None
          ELSE error' = None /\ output' = Some(r)
    /\ UNCHANGED <<inputs, series, idx, locals, iteration, returned, engine, run,
                   previous, portfolio_value, batch, scan, manager>>

\* the primitives on the series
CalculatePrimitives ==
    /\ pc = "idle"
    /\ Len(closes) = nbars
    /\ pc' = "primitives"
    /\ output' = Some(Primitives(ToRat(highs), ToRat(lows), ToRat(closes), Window))
    /\ UNCHANGED <<inputs, series, idx, locals, iteration, returned, caller,
                   portfolio_value, batch, scan, manager>>

\* ema and rsi on the closes of the series, with one of the periods
CalculateAverages ==
    /\ pc = "idle"
    /\ Len(closes) = nbars
    /\ pc' = "averages"
    /\ \E period \in Periods :
          /\ nbars <= period + MaxSmoothed
          /\ output' = Some([period |-> period,
                             ema |-> ema(ToRat(closes), period),
                             rsi |-> rsi(ToRat(closes), period)])
    /\ UNCHANGED <<inputs, series, idx, locals, iteration, returned, caller,
                   portfolio_value, batch, scan, manager>>

NextIndicators ==
    ReadCandle \/ CalculateForSymbol \/ CalculatePrimitives \/ CalculateAverages

SpecIndicators == InitIndicators /\ [][NextIndicators]_vars

\* the lengths of the series the trend is calculated on: the fewest candles a
\* snapshot needs, series on which EMA21 is defined and EMA50 is not, and one
\* candle less than, as many as and one more than EMA50 needs
TrendLengths ==
    {MIN_CANDLES, EMA_MID, EMA_MID + 1, EMA_SLOW - 1, EMA_SLOW, EMA_SLOW + 1}

InitTrend ==
    /\ nbars \in TrendLengths
    /\ strategy = [kind |-> "none"]
    /\ portfolio_value = None
    /\ NoBatch
    /\ InitState
    /\ position_size_percent = 100
    /\ stop_loss_enabled = FALSE
    /\ take_profit_enabled = FALSE

\* calculate_for_symbol, line 109, past the check of the number of candles:
\* _calculate_trend_indicators on the closes of the series
CalculateTrend ==
    /\ pc = "idle"
    /\ Len(closes) = nbars
    /\ nbars >= MIN_CANDLES
    /\ pc' = "trend"
    /\ output' = Some(_calculate_trend_indicators(ToRat(closes)))
    /\ UNCHANGED <<inputs, series, idx, locals, iteration, returned, caller,
                   portfolio_value, batch, scan, manager>>

NextTrend == ReadCandle \/ CalculateTrend

SpecTrend == InitTrend /\ [][NextTrend]_vars

----------------------------------------------------------------------------
(* Batches: IndicatorService.execute over the symbols of a snapshot and       *)
(* MarketScanner.scan_multiple over a list of symbols.  The eight detectors   *)
(* of scanner/patterns.py are not applied here: what they detect on a symbol's *)
(* candles is part of the market data.  They compute with numpy on 50 or more *)
(* valid candles and hand back detected=False where a pattern is not there,   *)
(* so the handler around each detector (scanner.py lines 133-147) stays idle. *)

\* scan_symbol wants this many candles
SCAN_MIN_CANDLES == 50

\* the most symbols in a batch
MaxSymbols == 3

\* n candles, all the same
Repeat(bar, n) == [i \in 1..n |-> bar]

FlatCandle == [high |-> 100, low |-> 100, close |-> 100, volume |-> 1]
WideCandle == [high |-> 300, low |-> 100, close |-> 200, volume |-> 1]

\* a detected pattern, as scan_symbol appends it to patterns_found
Pattern(type, sig, score) == [type |-> type, signal |-> sig, score |-> score]

\* the detectors, in the order of scan_symbol's default list
PatternTypes ==
    <<"breakout", "momentum", "volume_spike", "ema_crossover", "rsi_extreme",
      "macd_crossover", "sr_bounce", "bb_squeeze">>

\* what a detector returns: PatternResult(detected, signal, score)
PatternResult(detected, sig, score) ==
    [detected |-> detected, signal |-> sig, score |-> score]

\* the PatternResult of a detector that does not find its pattern
NotDetected == PatternResult(FALSE, "NEUTRAL", 0)

\* the results of the eight detectors when they detect the patterns of `found`
\* and no other
Detect(found) ==
    [t \in {PatternTypes[i] : i \in 1..Len(PatternTypes)} |->
        IF \E i \in 1..Len(found) : found[i].type = t
        THEN LET i == CHOOSE i \in 1..Len(found) : found[i].type = t
             IN  PatternResult(TRUE, found[i].signal, found[i].score)
        ELSE NotDetected]

\* the symbols a batch is made of
SymbolNames == {"DOWN", "NEW", "CALM", "BULL", "BEAR", "MIXED"}

\* the market data of each symbol: whether fetching it raises, its candles, and
\* what the detectors return on them; the detectors return `detections` on the
\* candles of the symbol ANY
MarketData(symbol) ==
    CASE symbol = "DOWN" ->
            [fetch |-> "raises", ohlcv |-> <<>>, detect |-> Detect(<<>>)]
      [] symbol = "NEW" ->
            [fetch |-> "ok", ohlcv |-> Repeat(FlatCandle, 1), detect |-> Detect(<<>>)]
      [] symbol = "CALM" ->
            [fetch |-> "ok", ohlcv |-> Repeat(FlatCandle, SCAN_MIN_CANDLES),
             detect |-> Detect(<<>>)]
      [] symbol = "BULL" ->
            [fetch |-> "ok", ohlcv |-> Repeat(FlatCandle, SCAN_MIN_CANDLES),
             detect |-> Detect(<<Pattern("breakout", "BULLISH", 60)>>)]
      [] symbol = "BEAR" ->
            [fetch |-> "ok", ohlcv |-> Repeat(WideCandle, SCAN_MIN_CANDLES),
             detect |-> Detect(<<Pattern("momentum", "BEARISH", 30)>>)]
      [] symbol = "MIXED" ->
            [fetch |-> "ok", ohlcv |-> Repeat(FlatCandle, SCAN_MIN_CANDLES),
             detect |-> Detect(<<Pattern("ema_crossover", "BULLISH", 30),
                                 Pattern("rsi_extreme", "BEARISH", 30)>>)]
      [] symbol = "ANY" ->
            [fetch |-> "ok", ohlcv |-> Repeat(FlatCandle, SCAN_MIN_CANDLES),
             detect |-> detections]

\* the lists of at most n symbols
RECURSIVE SymbolLists(_)
SymbolLists(n) ==
    IF n = 0 THEN {<<>>}
    ELSE SymbolLists(n - 1)
         \cup {Append(l, x) : l \in {m \in SymbolLists(n - 1) : Len(m) = n - 1},
                              x \in SymbolNames}

\* the min_score and signal_filter arguments of scan_multiple
MinScores == {0, 40}
SignalFilters == {None, Some("BULLISH")}

\* execute, line 84: calculate_for_symbol(symbol_data) on the symbol's candles
CalculateSymbol(symbol) ==
    LET ohlcv == MarketData(symbol).ohlcv
    IN  calculate_for_symbol([i \in 1..Len(ohlcv) |-> ohlcv[i].high],
                             [i \in 1..Len(ohlcv) |-> ohlcv[i].low],
                             [i \in 1..Len(ohlcv) |-> ohlcv[i].close],
                             [i \in 1..Len(ohlcv) |-> ohlcv[i].volume],
                             None, DefaultRiskPercent)

\* results[symbol] = output
Store(dict, key, value) ==
    [k \in DOMAIN dict \cup {key} |-> IF k = key THEN value ELSE dict[k]]

\* sum(p["score"] for p in patterns_found)
RECURSIVE SumScores(_)
SumScores(ps) == IF ps = <<>> THEN 0 ELSE ps[1].score + SumScores(Tail(ps))

\* sum(1 for p in patterns_found if p["signal"] == sig)
Count(ps, sig) == Cardinality({i \in 1..Len(ps) : ps[i].signal = sig})

\* scan_symbol, lines 87-97: the detectors to run, None and a list with "all"
\* standing for all eight
Requested(requested) ==
    IF requested = None \/ \E i \in 1..Len(requested[1]) : requested[1][i] = "all"
    THEN PatternTypes ELSE requested[1]

\* patterns_found that counts every requested detector, detected or not
RECURSIVE PatternsReported(_, _)
PatternsReported(detect, requested) ==
    IF requested = <<>> THEN <<>>
    ELSE LET rest == PatternsReported(detect, SubSeq(requested, 1, Len(requested) - 1))
             type == requested[Len(requested)]
         IN  IF type \in DOMAIN detect
             THEN Append(rest, Pattern(type, detect[type].signal, detect[type].score))
             ELSE rest

\* lines 131-147: the loop over the requested patterns that fills patterns_found
RECURSIVE PatternsFound(_, _)
PatternsFound(detect, requested) ==
    IF requested = <<>> THEN <<>>
    ELSE LET rest == PatternsFound(detect, SubSeq(requested, 1, Len(requested) - 1))
             type == requested[Len(requested)]
         IN  IF type \in DOMAIN detect /\ detect[type].detected
             THEN Append(rest, Pattern(type, detect[type].signal, detect[type].score))
             ELSE rest

\* scan_symbol: None when the fetch raises or the candles are too few,
\* otherwise the ScanResult
scan_symbol(symbol, requested) ==
    LET data == MarketData(symbol)
    IN  IF data.fetch = "raises" THEN None
        ELSE IF Len(data.ohlcv) < SCAN_MIN_CANDLES THEN None
        ELSE LET patterns_found == PatternsFound(data.detect, Requested(requested))
                 bullish_count == Count(patterns_found, "BULLISH")
                 bearish_count == Count(patterns_found, "BEARISH")
             IN  Some([symbol |-> symbol,
                       patterns_found |-> patterns_found,
                       total_score |-> SumScores(patterns_found),
                       dominant_signal |->
                           IF bullish_count > bearish_count THEN "BULLISH"
                           ELSE IF bearish_count > bullish_count THEN "BEARISH"
                           ELSE "NEUTRAL"])

\* scan_multiple, lines 191-195: whether a gathered result goes into
\* valid_results
IsValidResult(result, score, filter) ==
    /\ result # None
    /\ result[1].total_score >= score
    /\ filter = None \/ result[1].dominant_signal = filter[1]
    /\ result[1].patterns_found # <<>>

\* lines 189-196: the valid results among the gathered ones, in their order
RECURSIVE ValidResults(_, _, _)
ValidResults(gathered, score, filter) ==
    IF gathered = <<>> THEN <<>>
    ELSE LET rest == ValidResults(SubSeq(gathered, 1, Len(gathered) - 1),
                                  score, filter)
             result == gathered[Len(gathered)]
         IN  IF IsValidResult(result, score, filter)
             THEN Append(rest, result[1]) ELSE rest

\* x put into a list sorted by total score, highest first, after the elements
\* that score as much
InsertByScore(x, sorted) ==
    LET before == Cardinality({i \in 1..Len(sorted) :
                                  sorted[i].total_score >= x.total_score})
    IN  SubSeq(sorted, 1, before) \o <<x>> \o SubSeq(sorted, before + 1, Len(sorted))

\* valid_results.sort(key=total_score, reverse=True): a stable sort
RECURSIVE SortByScore(_)
SortByScore(l) ==
    IF l = <<>> THEN <<>>
    ELSE InsertByScore(l[Len(l)], SortByScore(SubSeq(l, 1, Len(l) - 1)))

\* a batch before it is run
InitBatch ==
    /\ nbars = 0
    /\ strategy = [kind |-> "none"]
    /\ portfolio_value = None
    /\ patterns = None /\ detections = <<>>
    /\ symbols \in SymbolLists(MaxSymbols)
    /\ min_score \in MinScores
    /\ signal_filter \in SignalFilters
    /\ InitState
    /\ position_size_percent = 100
    /\ stop_loss_enabled = FALSE
    /\ take_profit_enabled = FALSE

\* execute that lets the error of calculate_for_symbol go up to its caller
ExecuteSymbolWithoutHandler ==
    /\ pc \in {"idle", "execute"}
    /\ idx < Len(symbols)
    /\ \E r \in {CalculateSymbol(symbols[idx + 1])} :
          IF r.raised = ""
          THEN /\ pc' = "execute"
               /\ idx' = idx + 1
               /\ results' = Store(results, symbols[idx + 1], r)
               /\ error' = error
          ELSE /\ pc' = "failed"
               /\ error' = Some(r)
               /\ UNCHANGED <<idx, results>>
    /\ UNCHANGED <<inputs, series, locals, iteration, returned, engine, run, previous,
                   portfolio_value, output, symbols, min_score, signal_filter,
                   scan, manager>>

\* execute, lines 82-88: one turn of the loop over the snapshot's symbols
ExecuteSymbol ==
    /\ pc \in {"idle", "execute"}
    /\ idx < Len(symbols)
    /\ pc' = "execute"
    /\ idx' = idx + 1
    /\ \E r \in {CalculateSymbol(symbols[idx + 1])} :
          results' = IF r.raised = "" THEN Store(results, symbols[idx + 1], r)
                     ELSE results
    /\ UNCHANGED <<inputs, series, locals, iteration, returned, caller,
                   portfolio_value, output, symbols, min_score, signal_filter,
                   scan, manager>>

\* execute, line 90: return results
ExecuteReturn ==
    /\ pc \in {"idle", "execute"}
    /\ idx = Len(symbols)
    /\ pc' = "executed"
    /\ output' = Some(results)
    /\ UNCHANGED <<inputs, series, idx, locals, iteration, returned, caller,
                   portfolio_value, batch, scan, manager>>

\* scan_multiple, lines 181-186: one of the gathered scan_symbol tasks ends;
\* the tasks end in any order
ScanSymbol ==
    /\ pc \in {"idle", "scan"}
    /\ pc' = "scan"
    /\ \E i \in (1..Len(symbols)) \ DOMAIN results :
          results' = Store(results, i, scan_symbol(symbols[i], patterns))
    /\ UNCHANGED <<inputs, series, idx, locals, iteration, returned, caller,
                   portfolio_value, output, symbols, min_score, signal_filter,
                   scan, manager>>

\* scan_multiple, lines 186-202: gather hands the results back in the order of
\* the symbols; filter, sort, return
ScanReturn ==
    /\ pc \in {"idle", "scan"}
    /\ DOMAIN results = 1..Len(symbols)
    /\ pc' = "scanned"
    /\ output' = Some(SortByScore(ValidResults([i \in 1..Len(symbols) |-> results[i]],
                                               min_score, signal_filter)))
    /\ UNCHANGED <<inputs, series, idx, locals, iteration, returned, caller,
                   portfolio_value, batch, scan, manager>>

NextBatch == ExecuteSymbol \/ ExecuteReturn \/ ScanSymbol \/ ScanReturn

SpecBatch == InitBatch /\ [][NextBatch]_vars

----------------------------------------------------------------------------
(* MarketScanner.scan_symbol on one symbol, the detectors returning any of a  *)
(* few results and the caller asking for any of a few lists of patterns.      *)

\* the most detectors that return something else than NotDetected on the same
\* candles
MaxReporting == 3

\* what a detector may return.  scan_symbol reads the signal and the score of
\* a result only when its detected is set, so the results include one that is
\* not detected and has a signal and a score all the same.
Outcomes ==
    {NotDetected, PatternResult(TRUE, "BULLISH", 60),
     PatternResult(TRUE, "BEARISH", 30), PatternResult(TRUE, "NEUTRAL", 30),
     PatternResult(FALSE, "BULLISH", 40)}

\* the results of the eight detectors
Detections ==
    {d \in [{PatternTypes[i] : i \in 1..Len(PatternTypes)} -> Outcomes] :
        Cardinality({t \in DOMAIN d : d[t] # NotDetected}) <= MaxReporting}

\* the patterns arguments: the default, lists of pattern types as the scan
\* endpoint makes them from its comma-separated parameter, and the empty list
PatternRequests ==
    {None, Some(<<"all">>), Some(<<>>), Some(<<"breakout">>),
     Some(<<"breakout", "momentum", "volume_spike">>),
     Some(<<"breakout", "breakout", "momentum">>),
     Some(<<"momentum", "all">>)}

\* the scanner before a scan of the symbol ANY
InitScan ==
    /\ nbars = 0
    /\ strategy = [kind |-> "none"]
    /\ portfolio_value = None
    /\ symbols = <<"ANY">> /\ min_score = 0 /\ signal_filter = None
    /\ patterns \in PatternRequests
    /\ detections \in Detections
    /\ InitState
    /\ position_size_percent = 100
    /\ stop_loss_enabled = FALSE
    /\ take_profit_enabled = FALSE

\* scan_symbol(symbol, patterns)
ScanOne ==
    /\ pc = "idle"
    /\ pc' = "scanned_one"
    /\ output' = scan_symbol(symbols[1], patterns)
    /\ UNCHANGED <<inputs, series, idx, locals, iteration, returned, caller,
                   portfolio_value, batch, scan, manager>>

NextScan == ScanOne

SpecScan == InitScan /\ [][NextScan]_vars

----------------------------------------------------------------------------
(* scanner/patterns.py: detect_breakout, detect_momentum and                  *)
(* detect_volume_spike.  Of a PatternResult the model keeps detected, signal  *)
(* and score; strength, details, entry_price, stop_loss and target, and the   *)
(* ATR that detect_breakout computes for its stop_loss, are left out.  A      *)
(* division of a positive volume by an average volume of zero gives infinity  *)
(* in numpy, and the score min(100, infinity) is 100.                         *)

\* lookback of detect_breakout and detect_volume_spike, and of detect_momentum
LOOKBACK == 20
MOMENTUM_LOOKBACK == 14

\* the PatternResult of a detector that does not find its pattern, its score
\* an indicator value
NoPattern == PatternResult(FALSE, "NEUTRAL", R(0))

RMin(a, b) == IF RLt(b, a) THEN b ELSE a

\* lines 96-98 and 102-107: the score of a breakout whose price extends
\* price_extension percent beyond the broken level
BreakoutScore(current_volume, avg_volume, price_extension) ==
    IF avg_volume = R(0) THEN R(100)
    ELSE RMin(R(100),
              RAdd(RAdd(R(50), RMul(RSub(RDiv(current_volume, avg_volume),
                                         Rat(3, 2)), R(20))),
                   RMul(price_extension, R(10))))

\* a breakout that also counts a volume of exactly 1.5 times the average
BreakoutAtThreshold(hi, lo, cl, vol) ==
    IF Len(cl) < LOOKBACK + 5 THEN NoPattern
    ELSE LET n == Len(cl)
             current_price == R(cl[n])
             current_volume == R(vol[n])
             recent_high == RMaxOf(SubSeq(ToRat(hi), n - LOOKBACK + 1, n - 3))
             recent_low == RMinOf(SubSeq(ToRat(lo), n - LOOKBACK + 1, n - 3))
             avg_volume == Mean(SubSeq(ToRat(vol), n - LOOKBACK + 1, n - 1))
             with_volume == RGe(current_volume, RMul(avg_volume, Rat(3, 2)))
         IN  IF RGt(current_price, recent_high) /\ with_volume
             THEN PatternResult(TRUE, "BULLISH",
                      BreakoutScore(current_volume, avg_volume,
                          RMul(RDiv(RSub(current_price, recent_high), recent_high),
                               R(100))))
             ELSE IF RLt(current_price, recent_low) /\ with_volume
             THEN PatternResult(TRUE, "BEARISH",
                      BreakoutScore(current_volume, avg_volume,
                          RMul(RDiv(RSub(recent_low, current_price), recent_low),
                               R(100))))
             ELSE NoPattern

\* detect_breakout(highs, lows, closes, volumes), lookback = 20
detect_breakout(hi, lo, cl, vol) ==
    IF Len(cl) < LOOKBACK + 5 THEN NoPattern
    ELSE LET n == Len(cl)
             current_price == R(cl[n])
             current_volume == R(vol[n])
             recent_high == RMaxOf(SubSeq(ToRat(hi), n - LOOKBACK + 1, n - 3))
             recent_low == RMinOf(SubSeq(ToRat(lo), n - LOOKBACK + 1, n - 3))
             avg_volume == Mean(SubSeq(ToRat(vol), n - LOOKBACK + 1, n - 1))
             with_volume == RGt(current_volume, RMul(avg_volume, Rat(3, 2)))
         IN  IF RGt(current_price, recent_high) /\ with_volume
             THEN PatternResult(TRUE, "BULLISH",
                      BreakoutScore(current_volume, avg_volume,
                          RMul(RDiv(RSub(current_price, recent_high), recent_high),
                               R(100))))
             ELSE IF RLt(current_price, recent_low) /\ with_volume
             THEN PatternResult(TRUE, "BEARISH",
                      BreakoutScore(current_volume, avg_volume,
                          RMul(RDiv(RSub(recent_low, current_price), recent_low),
                               R(100))))
             ELSE NoPattern

\* lines 194 and 212: min(100, 40 + |roc_5| * 3 + current_adx / 2 + bonus).  The
\* ADX is never negative, so the score is 100 whatever the ADX once the other
\* terms reach 100
MomentumScore(roc_5, bonus, current_adx) ==
    LET base == RAdd(RAdd(R(40), RMul(RAbs(roc_5), R(3))), bonus)
    IN  IF RGe(base, R(100)) THEN R(100)
        ELSE RMin(R(100), RAdd(base, RDiv(current_adx, R(2))))

\* detect_momentum(closes, volumes), lookback = 14
detect_momentum(cl, vol) ==
    IF Len(cl) < MOMENTUM_LOOKBACK + 10 THEN NoPattern
    ELSE LET n == Len(cl)
             current_rsi == rsi(ToRat(cl), 14)[n]
             roc_5 == RMul(RDiv(R(cl[n] - cl[n - 5]), R(cl[n - 5])), R(100))
             roc_10 == RMul(RDiv(R(cl[n] - cl[n - 10]), R(cl[n - 10])), R(100))
             recent_vol == Mean(SubSeq(ToRat(vol), n - 4, n))
             older_vol == Mean(SubSeq(ToRat(vol), n - 9, n - 5))
             vol_increase == RGt(recent_vol, RMul(older_vol, Rat(6, 5)))
             adx_values == adx(ToRat(cl), ToRat(cl), ToRat(cl), 14).adx
             current_adx == IF IsNaN(adx_values[n]) THEN R(20) ELSE adx_values[n]
             bonus == IF vol_increase THEN R(10) ELSE R(0)
             bullish_momentum == /\ RGt(roc_5, R(2)) /\ RGt(roc_10, R(3))
                                 /\ RGt(current_rsi, R(50)) /\ RLt(current_rsi, R(80))
             bearish_momentum == /\ RLt(roc_5, R(-2)) /\ RLt(roc_10, R(-3))
                                 /\ RLt(current_rsi, R(50)) /\ RGt(current_rsi, R(20))
         IN  IF bullish_momentum
             THEN PatternResult(TRUE, "BULLISH", MomentumScore(roc_5, bonus, current_adx))
             ELSE IF bearish_momentum
             THEN PatternResult(TRUE, "BEARISH", MomentumScore(roc_5, bonus, current_adx))
             ELSE NoPattern

\* a volume spike that needs the price to move by more than half a percent
VolumeSpikeWithMove(cl, vol) ==
    IF Len(vol) < LOOKBACK + 1 THEN NoPattern
    ELSE LET n == Len(cl)
             current_volume == R(vol[n])
             avg_volume == Mean(SubSeq(ToRat(vol), n - LOOKBACK + 1, n - 1))
             price_change == RMul(RDiv(R(cl[n] - cl[n - 1]), R(cl[n - 1])), R(100))
             spike == IF avg_volume = R(0) THEN vol[n] > 0
                      ELSE RGe(RDiv(current_volume, avg_volume), R(2))
         IN  IF spike /\ RGt(RAbs(price_change), Rat(1, 2))
             THEN PatternResult(TRUE,
                      IF RGt(price_change, R(0)) THEN "BULLISH" ELSE "BEARISH",
                      IF avg_volume = R(0) THEN R(100)
                      ELSE RMin(R(100),
                                RAdd(RAdd(R(30),
                                          RMul(RSub(RDiv(current_volume, avg_volume),
                                                    R(2)), R(15))),
                                     RMul(RAbs(price_change), R(5)))))
             ELSE NoPattern

\* detect_volume_spike(closes, volumes), lookback = 20, spike_threshold = 2.0
detect_volume_spike(cl, vol) ==
    IF Len(vol) < LOOKBACK + 1 THEN NoPattern
    ELSE LET n == Len(cl)
             current_volume == R(vol[n])
             avg_volume == Mean(SubSeq(ToRat(vol), n - LOOKBACK + 1, n - 1))
             price_change == RMul(RDiv(R(cl[n] - cl[n - 1]), R(cl[n - 1])), R(100))
             spike == IF avg_volume = R(0) THEN vol[n] > 0
                      ELSE RGe(RDiv(current_volume, avg_volume), R(2))
         IN  IF spike
             THEN PatternResult(TRUE,
                      IF RGt(price_change, Rat(1, 2)) THEN "BULLISH"
                      ELSE IF RLt(price_change, Rat(-1, 2)) THEN "BEARISH"
                      ELSE "NEUTRAL",
                      IF avg_volume = R(0) THEN R(100)
                      ELSE RMin(R(100),
                                RAdd(RAdd(R(30),
                                          RMul(RSub(RDiv(current_volume, avg_volume),
                                                    R(2)), R(15))),
                                     RMul(RAbs(price_change), R(5)))))
             ELSE NoPattern

\* the three detectors on one series, as scan_symbol calls them
DetectOn(hi, lo, cl, vol) ==
    [breakout |-> detect_breakout(hi, lo, cl, vol),
     momentum |-> detect_momentum(cl, vol),
     volume_spike |-> detect_volume_spike(cl, vol)]

\* the candles of a series for the detectors: two with one price for open,
\* high, low and close, and one with a range; and their volumes
PatternShapes ==
    {[high |-> 100, low |-> 100, close |-> 100],
     [high |-> 130, low |-> 130, close |-> 130],
     [high |-> 130, low |-> 100, close |-> 101]}
PatternVolumes == {0, 2, 3, 4}

\* a series for the detectors opens with one candle repeated; its last
\* PatternFreeBars candles are drawn freely, with the volume of the opening
\* candle but for the last PatternFreeVolumes of them
PatternFreeBars == 3
PatternFreeVolumes == 1

\* the lengths of the series: below the fewest candles any detector needs, at
\* the fewest detect_momentum and detect_breakout need, and the fewest a scan
\* needs
PatternLengths ==
    {LOOKBACK, MOMENTUM_LOOKBACK + 10, LOOKBACK + 5, SCAN_MIN_CANDLES}

InitPatterns ==
    /\ nbars \in PatternLengths
    /\ strategy = [kind |-> "none"]
    /\ portfolio_value = None
    /\ NoBatch
    /\ InitState
    /\ position_size_percent = 100
    /\ stop_loss_enabled = FALSE
    /\ take_profit_enabled = FALSE

\* the next candle of the series arrives
ReadPatternCandle ==
    /\ pc = "idle"
    /\ Len(closes) < nbars
    /\ \E shape \in IF Len(closes) >= nbars - PatternFreeBars \/ Len(closes) = 0
                     THEN PatternShapes
                     ELSE {[high |-> highs[1], low |-> lows[1], close |-> closes[1]]},
          volume \in IF Len(closes) >= nbars - PatternFreeVolumes \/ Len(closes) = 0
                      THEN PatternVolumes
                      ELSE {volumes[1]} :
          /\ highs' = Append(highs, shape.high)
          /\ lows' = Append(lows, shape.low)
          /\ closes' = Append(closes, shape.close)
          /\ volumes' = Append(volumes, volume)
    /\ UNCHANGED <<inputs, pc, idx, locals, iteration, returned, caller, service>>

\* the three detectors on the series
DetectPatterns ==
    /\ pc = "idle"
    /\ Len(closes) = nbars
    /\ pc' = "detected"
    /\ output' = Some(DetectOn(highs, lows, closes, volumes))
    /\ UNCHANGED <<inputs, series, idx, locals, iteration, returned, caller,
                   portfolio_value, batch, scan, manager>>

NextPatterns == ReadPatternCandle \/ DetectPatterns

SpecPatterns == InitPatterns /\ [][NextPatterns]_vars

----------------------------------------------------------------------------
(***************************************************************************)
(* websocket/manager.py: the queues of the SSE clients.  Everything here   *)
(* runs on one asyncio event loop, so a coroutine is interrupted only at   *)
(* an await that suspends.  A step of the model is the code between two    *)
(* such awaits.  _process_tick suspends while it writes the cache; the     *)
(* cache itself holds no queue and is left out.  _broadcast_to_sse has no  *)
(* await inside: it walks all the queues in one step.  A tick is modelled  *)
(* by its number in the order the feed delivered it.                       *)
(***************************************************************************)

\* asyncio.Queue(maxsize=...) of create_sse_queue: 100 in the code, smaller
\* here so that a queue fills within a few ticks
maxsize == 2

\* the ticks the feed delivers
MaxTicks == 4

\* the client_id values: uuid4 strings in the endpoints
ClientIds == {"c1", "c2"}

\* asyncio.Queue.full()
QueueFull(queue) == Len(queue) >= maxsize

\* the body of the loop of _broadcast_to_sse, with the incoming tick thrown
\* away when the queue is full
PutUnlessFull(queue, tick) ==
    IF ~QueueFull(queue) THEN Append(queue, tick) ELSE queue

\* the body of the loop of _broadcast_to_sse: put_nowait, and on QueueFull
\* get_nowait followed by put_nowait, any exception of those two swallowed
PutDroppingOldest(queue, tick) ==
    IF ~QueueFull(queue)
    THEN Append(queue, tick)
    ELSE IF QueueFull(Tail(queue))
         THEN Tail(queue)
         ELSE Append(Tail(queue), tick)

\* _broadcast_to_sse(tick) on the dict of queues
_broadcast_to_sse(queues, tick) ==
    [client_id \in DOMAIN queues |-> PutDroppingOldest(queues[client_id], tick)]

\* the manager and the loop before the feed delivers anything
InitSse ==
    /\ nbars = 0
    /\ strategy = [kind |-> "none"]
    /\ portfolio_value = None
    /\ NoBatch
    /\ InitState
    /\ position_size_percent = 100
    /\ stop_loss_enabled = FALSE
    /\ take_profit_enabled = FALSE

\* _on_angelone_data and tick_handler: create_task(_process_tick(tick))
OnTick ==
    /\ ticks_received < MaxTicks
    /\ ticks_received' = ticks_received + 1
    /\ tick_tasks' = tick_tasks \cup {[tick |-> ticks_received + 1, at |-> "cache"]}
    /\ UNCHANGED <<inputs, series, pc, idx, locals, iteration, returned, caller,
                   portfolio_value, output, batch, scan, sse_queues, last_tick>>

\* _process_tick up to the broadcast: the awaits on the price cache
UpdateCache ==
    /\ \E task \in tick_tasks :
          /\ task.at = "cache"
          /\ tick_tasks' = (tick_tasks \ {task})
                              \cup {[tick |-> task.tick, at |-> "broadcast"]}
    /\ UNCHANGED <<inputs, series, pc, idx, locals, iteration, returned, caller,
                   portfolio_value, output, batch, scan, sse_queues,
                   ticks_received, last_tick>>

\* _process_tick from the broadcast on: _broadcast_to_sse, then the tick
\* callbacks, which hold no queue
BroadcastTick ==
    /\ \E task \in tick_tasks :
          /\ task.at = "broadcast"
          /\ sse_queues' = _broadcast_to_sse(sse_queues, task.tick)
          /\ last_tick' = Some(task.tick)
          /\ tick_tasks' = tick_tasks \ {task}
    /\ UNCHANGED <<inputs, series, pc, idx, locals, iteration, returned, caller,
                   portfolio_value, output, batch, scan, ticks_received>>

\* create_sse_queue(client_id), called when an event_generator starts
CreateSseQueue ==
    /\ \E client_id \in ClientIds :
          sse_queues' = [c \in DOMAIN sse_queues \cup {client_id} |->
                            IF c = client_id THEN <<>> ELSE sse_queues[c]]
    /\ UNCHANGED <<inputs, series, pc, idx, locals, iteration, returned, caller,
                   portfolio_value, output, batch, scan, tick_tasks,
                   ticks_received, last_tick>>

\* remove_sse_queue(client_id), called when an event_generator ends
RemoveSseQueue ==
    /\ \E client_id \in ClientIds :
          sse_queues' = IF client_id \in DOMAIN sse_queues
                        THEN [c \in DOMAIN sse_queues \ {client_id} |-> sse_queues[c]]
                        ELSE sse_queues
    /\ UNCHANGED <<inputs, series, pc, idx, locals, iteration, returned, caller,
                   portfolio_value, output, batch, scan, tick_tasks,
                   ticks_received, last_tick>>

\* queue.get() of an event_generator returns: the oldest tick leaves the queue
GetTick ==
    /\ \E client_id \in DOMAIN sse_queues :
          /\ sse_queues[client_id] # <<>>
          /\ sse_queues' = [sse_queues EXCEPT ![client_id] = Tail(@)]
    /\ UNCHANGED <<inputs, series, pc, idx, locals, iteration, returned, caller,
                   portfolio_value, output, batch, scan, tick_tasks,
                   ticks_received, last_tick>>

NextSse ==
    OnTick \/ UpdateCache \/ BroadcastTick \/ CreateSseQueue \/ RemoveSseQueue
        \/ GetTick

SpecSse == InitSse /\ [][NextSse]_vars

----------------------------------------------------------------------------
(* Claims about the simulator, for any strategy *)

\* a step of the loop body: one bar processed
BarStep == pc = "loop" /\ idx < nbars /\ idx' = idx + 1

\* the bar the step read
StepBar == [high |-> highs'[idx + 1], low |-> lows'[idx + 1], close |-> closes'[idx + 1]]

\* the stop-loss / take-profit level of the open position lies within the bar's range
StopBreached(bar) ==
    \/ position = 1 /\ bar.low <= stop_loss
    \/ position = -1 /\ bar.high >= stop_loss

TargetBreached(bar) ==
    \/ position = 1 /\ bar.high >= take_profit
    \/ position = -1 /\ bar.low <= take_profit

\* C1: once the run has returned, final_capital (the equity of the last
\* equity-curve point) equals initial_capital plus the sum of pnl over all Trade
\* Records, however the positions were closed.
C1_CapitalConservation ==
    pc = "done" => final_capital = initial_capital + SumPnl(trades)

\* C1 witness: a finished run with a stop/target exit, a reversal and a forced
\* close, whose final capital differs from the initial capital
C1_Witness ==
    /\ pc = "done"
    /\ final_capital # initial_capital
    /\ Len(trades) = 3
    /\ trades[1].exit_reason \in {"Stop loss hit", "Take profit hit"}
    /\ trades[2].exit_reason \in {"buy signal", "sell signal"}
    /\ trades[3].exit_reason = "End of backtest period"

\* C2 as stated: a BUY returned while the position after the exit check is FLAT
\* or SHORT leaves the position LONG at the end of the bar; a SELL returned while
\* FLAT or LONG leaves it SHORT.
C2_SignalSetsPosition ==
    idx > 0 =>
        /\ (signal.signal_type = "BUY" /\ signal_position <= 0) => position = 1
        /\ (signal.signal_type = "SELL" /\ signal_position >= 0) => position = -1

\* C2 amended: the same, provided the quantity the simulator computes for the new
\* position, floor(capital x positionSizePercent/100 / close) with capital after
\* the opposite position's pnl, is at least 1.
C2_SignalSetsPositionWhenAffordable ==
    (idx > 0 /\ IntDiv(capital * position_size_percent, 100 * Last(closes)) >= 1) =>
        /\ (signal.signal_type = "BUY" /\ signal_position <= 0) => position = 1
        /\ (signal.signal_type = "SELL" /\ signal_position >= 0) => position = -1

\* C2 witness: a BUY flips a SHORT position to LONG
C2_Witness ==
    /\ idx > 0
    /\ signal.signal_type = "BUY" /\ signal_position = -1 /\ position = 1
    /\ Len(trades) > 0 /\ Last(trades).direction = "SHORT"

\* what C3 says of a bar on which a level of the open position is breached: the
\* exit is taken at a breached level, its pnl is added to capital, exactly one
\* Trade Record is appended and the strategy is called with position FLAT
ExitTaken(bar) ==
    /\ exit_triggered'
    /\ \/ StopBreached(bar) /\ exit_price' = stop_loss
       \/ TargetBreached(bar) /\ exit_price' = take_profit
    /\ Len(trades') = Len(trades) + 1
    /\ Last(trades').exit_price = exit_price'
    /\ Last(trades').exit_date = Timestamp(idx)
    /\ capital' = capital + Last(trades').pnl
    /\ signal_position' = 0

\* C3 as stated: on every bar where a position is open and the bar's high/low
\* breaches its stop-loss or take-profit, the exit is taken before the strategy
\* is consulted.
C3_ExitBeforeSignal ==
    [][(BarStep /\ position # 0 /\ (StopBreached(StepBar) \/ TargetBreached(StepBar)))
        => ExitTaken(StepBar)]_vars

\* C3 amended: the same for a breached level whose check is enabled
\* (stop_loss_enabled for the stop-loss, take_profit_enabled for the take-profit).
C3_EnabledExitBeforeSignal ==
    [][(BarStep /\ position # 0
            /\ \/ stop_loss_enabled /\ StopBreached(StepBar)
               \/ take_profit_enabled /\ TargetBreached(StepBar))
        => /\ ExitTaken(StepBar)
           /\ \/ stop_loss_enabled /\ StopBreached(StepBar) /\ exit_price' = stop_loss
              \/ take_profit_enabled /\ TargetBreached(StepBar)
                    /\ exit_price' = take_profit]_vars

\* C3 witness: a stop-loss exit at the stop price, which is not the bar's close,
\* after which the strategy, called with FLAT, opened a new position on that bar
C3_Witness ==
    /\ idx > 0 /\ exit_triggered /\ exit_reason = "Stop loss hit"
    /\ exit_price # Last(closes)
    /\ signal_position = 0 /\ signal.signal_type = "BUY" /\ position = 1
    /\ Last(trades).exit_price = exit_price

\* C4: at the end of every bar the position flag is LONG or SHORT only while a
\* position of quantity >= 1 is open.
C4_OpenPositionHasQuantity ==
    position # 0 => quantity >= 1

\* C5 as stated: when a bar satisfies both the stop-loss and the take-profit
\* condition of the open position, exactly one Trade Record is produced and it
\* is the stop-loss exit at the stop price.
C5_StopLossFirst ==
    [][(BarStep /\ position # 0 /\ StopBreached(StepBar) /\ TargetBreached(StepBar))
        => /\ Len(trades') = Len(trades) + 1
           /\ Last(trades').exit_reason = "Stop loss hit"
           /\ Last(trades').exit_price = stop_loss]_vars

\* C5 amended: the same when the stop-loss check is enabled.
C5_EnabledStopLossFirst ==
    [][(BarStep /\ position # 0 /\ stop_loss_enabled
            /\ StopBreached(StepBar) /\ TargetBreached(StepBar))
        => /\ Len(trades') = Len(trades) + 1
           /\ Last(trades').exit_reason = "Stop loss hit"
           /\ Last(trades').exit_price = stop_loss
           /\ Last(trades').entry_date = entry_date]_vars

\* C5 witness: both checks enabled, the last bar spans stop-loss and take-profit
\* of the position that was open, and the stop-loss exit was recorded
C5_Witness ==
    /\ idx > 0 /\ stop_loss_enabled /\ take_profit_enabled
    /\ exit_triggered /\ exit_reason = "Stop loss hit"
    /\ Last(trades).direction = "LONG"
    /\ Last(lows) <= Last(trades).exit_price
    /\ Last(highs) >= Percent(Last(trades).entry_price, 110)
    /\ position = 0

\* C6: a position still open after the last bar gets exactly one more Trade
\* Record, the last of the list, with exit price the last close, exit date the
\* last timestamp, hold duration last index minus entry index and the
\* end-of-period reason; with no open position nothing is appended.
C6_ForcedClose ==
    [][(pc = "loop" /\ idx = nbars /\ pc' = "simulated")
        => IF position # 0
           THEN /\ Len(trades') = Len(trades) + 1
                /\ SubSeq(trades', 1, Len(trades)) = trades
                /\ Last(trades').exit_price = closes[nbars]
                /\ Last(trades').exit_date = Timestamp(nbars - 1)
                /\ Last(trades').hold_duration = (nbars - 1) - entry_idx
                /\ Last(trades').exit_reason = "End of backtest period"
                /\ Last(trades').entry_price = entry_price
                /\ Last(trades').quantity = quantity
           ELSE trades' = trades]_vars

\* C6 witness: a run that ended with a forced close of a position held for one
\* bar after an earlier trade
C6_Witness ==
    /\ pc = "simulated" /\ position # 0
    /\ Len(trades) = 2
    /\ Last(trades).exit_reason = "End of backtest period"
    /\ Last(trades).hold_duration = 1
    /\ Last(trades).pnl # 0

\* the stop-loss / take-profit C7 states for a new position
ClaimedStop(dir, sig, price) ==
    IF sig.stop_loss # None THEN sig.stop_loss[1]
    ELSE IF dir = 1 THEN Percent(price, 95) ELSE Percent(price, 105)

ClaimedTarget(dir, sig, price) ==
    IF sig.take_profit # None THEN sig.take_profit[1]
    ELSE IF dir = 1 THEN Percent(price, 110) ELSE Percent(price, 90)

\* C7: a signal that is executed first records the close of the opposite
\* position (exit reason: the signal's reason) and adds its pnl to capital; the
\* new position is opened at the close with quantity floor(capital x
\* positionSizePercent/100 / close) only if that is >= 1, and its stop-loss and
\* take-profit are the signal's values or, when the signal gives none, 95% / 110%
\* of the entry price for a long and 105% / 90% for a short.
C7_EntrySizingAndLevels ==
    [][(BarStep /\ \/ signal'.signal_type = "BUY" /\ signal_position' <= 0
                   \/ signal'.signal_type = "SELL" /\ signal_position' >= 0)
        => LET dir == IF signal'.signal_type = "BUY" THEN 1 ELSE -1
               price == StepBar.close
               qty == (capital' * position_size_percent) \div (100 * price)
           IN  /\ signal_position' # 0 =>
                    /\ Last(trades').exit_reason = signal'.reason
                    /\ Last(trades').exit_price = price
                    /\ capital' = capital + Last(trades').pnl
               /\ qty >= 1 =>
                    /\ position' = dir
                    /\ quantity' = qty
                    /\ entry_price' = price
                    /\ entry_idx' = idx
                    /\ stop_loss' = ClaimedStop(dir, signal', price)
                    /\ take_profit' = ClaimedTarget(dir, signal', price)
               /\ qty < 1 => position' # dir]_vars

\* C8: the equity curve has one point per bar, in bar order, and the point of
\* the last bar processed is realized capital plus the unrealized pnl of the
\* position open at the end of that bar, valued at the bar's close, with that
\* position as its flag.
C8_EquityCurve ==
    pc \in {"loop", "simulated", "done"} =>
        /\ Len(equity_curve) = idx
        /\ \A i \in 1..Len(equity_curve) :
              /\ equity_curve[i].date = Timestamp(i - 1)
              /\ equity_curve[i].price = closes[i]
        /\ idx > 0 =>
              /\ Last(equity_curve).position = position
              /\ Last(equity_curve).equity =
                    capital + (IF position = 1 THEN (closes[idx] - entry_price) * quantity
                               ELSE IF position = -1
                               THEN (entry_price - closes[idx]) * quantity
                               ELSE 0)

\* C8 witness: three bars processed, the last point marks an open short position
\* to market at a loss
C8_Witness ==
    /\ Len(equity_curve) = 3
    /\ position = -1
    /\ Last(equity_curve).position = -1
    /\ Last(equity_curve).equity < capital

----------------------------------------------------------------------------
(* Claims about the shipped strategies *)

\* the position flags generate_signal may be called with
PositionFlags == {-1, 0, 1}

\* the Signal the strategy of the run returns for the latest bar of the series
\* and position flag p
LatestSignal(p) ==
    generate_signal(strategy, Len(closes) - 1, highs, lows, closes, volumes, p)

\* C9: for each of the four strategies, every series as it grows in the first
\* run, its latest bar as the bar index and every position flag,
\* generate_signal returns no BUY for the flag LONG and no SELL for the flag
\* SHORT; and in the simulator no BUY is returned to a LONG position and no SELL
\* to a SHORT one.
C9_NoSameDirectionSignal ==
    /\ (closes # <<>> /\ run = "first" /\ pc = "loop") =>
          \A p \in PositionFlags : \A s \in {LatestSignal(p)} :
              /\ s.signal_type = "BUY" => p # 1
              /\ s.signal_type = "SELL" => p # -1
    /\ idx > 0 =>
          /\ signal.signal_type = "BUY" => signal_position # 1
          /\ signal.signal_type = "SELL" => signal_position # -1

\* C9 witness: the strategy's entry condition holds on the latest bar (a FLAT
\* caller would get a BUY) while the simulator holds the long position it
\* opened on an earlier BUY, and the strategy, called with LONG, returned HOLD
C9_Witness ==
    /\ pc = "loop" /\ run = "first" /\ idx > 0
    /\ signal_position = 1 /\ signal.signal_type = "HOLD" /\ position = 1
    /\ LatestSignal(0).signal_type = "BUY"
    /\ LatestSignal(1).signal_type = "HOLD"

----------------------------------------------------------------------------
(* Claims about the metrics *)

\* the equity values of the curve so far
EquityValues == [i \in 1..Len(equity_curve) |-> equity_curve[i].equity]

\* the highest of the first i values
PeakAt(values, i) == CHOOSE m \in {values[j] : j \in 1..i} :
                        \A j \in 1..i : values[j] <= m

\* the drop at point i from the highest value seen so far
DropAt(values, i) == PeakAt(values, i) - values[i]

\* the largest drop over the curve
LargestDrop(values) == CHOOSE d \in {DropAt(values, i) : i \in 1..Len(values)} :
                          \A i \in 1..Len(values) : DropAt(values, i) <= d

\* C11: the max_drawdown of the running-peak tracker is >= 0, is the largest
\* drop of the equity curve from the highest equity seen so far, is not below
\* the tracker's value for the curve without its last point, and
\* max_drawdown_percent is that drop as a percent of the peak at the first point
\* where it occurs; the max_drawdown run() returns is that value.
C11_MaxDrawdown ==
    equity_curve # <<>> =>
        LET values == EquityValues
            dd == MaxDrawdown(values)
            first == CHOOSE i \in 1..Len(values) :
                        /\ DropAt(values, i) = LargestDrop(values)
                        /\ \A j \in 1..(i - 1) : DropAt(values, j) < LargestDrop(values)
        IN  /\ dd.max_drawdown >= 0
            /\ dd.max_drawdown = LargestDrop(values)
            /\ Len(values) > 1 =>
                  MaxDrawdown(SubSeq(values, 1, Len(values) - 1)).max_drawdown
                      <= dd.max_drawdown
            /\ dd.max_drawdown_percent =
                  IF LargestDrop(values) = 0 THEN R(0)
                  ELSE Rat(LargestDrop(values) * 100, PeakAt(values, first))
            /\ pc = "done" =>
                  /\ metrics.max_drawdown = R(LargestDrop(values))
                  /\ metrics.max_drawdown_percent = Round2(dd.max_drawdown_percent)

\* C11 witness: a returned run whose equity rose above the initial capital and
\* then fell, the drawdown being measured from the later peak and not a whole
\* percent of it
C11_Witness ==
    /\ pc = "done" /\ Len(equity_curve) = 3
    /\ EquityValues[2] > EquityValues[1]
    /\ EquityValues[3] < EquityValues[2]
    /\ metrics.max_drawdown = R(EquityValues[2] - EquityValues[3])
    /\ MaxDrawdown(EquityValues).peak = EquityValues[2]
    /\ metrics.max_drawdown_percent # MaxDrawdown(EquityValues).max_drawdown_percent

\* the sum of pnl over the Trade Records with index in I
RECURSIVE SumOver(_, _)
SumOver(ts, I) ==
    IF I = {} THEN 0
    ELSE LET i == CHOOSE k \in I : TRUE
         IN  ts[i].pnl + SumOver(ts, I \ {i})

GrossProfit(ts) == SumOver(ts, {i \in 1..Len(ts) : ts[i].pnl > 0})
GrossLoss(ts) == -SumOver(ts, {i \in 1..Len(ts) : ts[i].pnl < 0})

\* C12: with grossProfit the sum of the positive pnl and grossLoss the absolute
\* sum of the negative pnl of the Trade Records of a returned run, profit_factor
\* before rounding is grossProfit / grossLoss when grossLoss > 0 and grossProfit
\* when grossLoss = 0, and the returned profit_factor is that value rounded to
\* 2 decimals; it is 0 when there are no trades.
C12_ProfitFactor ==
    pc = "done" =>
        IF trades = <<>> THEN metrics.profit_factor = R(0)
        ELSE /\ GrossLoss(trades) > 0 =>
                   ProfitFactor(trades) = Rat(GrossProfit(trades), GrossLoss(trades))
             /\ GrossLoss(trades) = 0 =>
                   ProfitFactor(trades) = R(GrossProfit(trades))
             /\ GrossLoss(trades) >= 0
             /\ metrics.profit_factor = Round2(ProfitFactor(trades))

\* C12 witness: a returned run with winning and losing trades whose profit
\* factor is not a whole number
C12_Witness ==
    /\ pc = "done"
    /\ GrossProfit(trades) > 0 /\ GrossLoss(trades) > 0
    /\ metrics.profit_factor = Rat(GrossProfit(trades), GrossLoss(trades))
    /\ metrics.profit_factor[2] # 1

\* a returned run with winning trades only, the profit factor being their sum
C12_WitnessWithoutLoss ==
    /\ pc = "done"
    /\ GrossProfit(trades) > 0 /\ GrossLoss(trades) = 0
    /\ metrics.profit_factor = R(GrossProfit(trades))

----------------------------------------------------------------------------
(* Claims about the indicators and the strategies' signals *)

\* macd() of the closes read so far, with the periods of the run's MACD strategy
MacdOfCloses ==
    macd(ToRat(closes), strategy.fast_period, strategy.slow_period,
         strategy.signal_period)

\* C13: for a close series of at least slow + signal - 1 bars, the signal line
\* macd() returns is defined at every index >= slow + signal - 2, and the
\* histogram there is the MACD line minus the signal line.
C13_MacdSignalLineDefined ==
    (strategy.kind = "macd"
        /\ Len(closes) >= strategy.slow_period + strategy.signal_period - 1) =>
        \A i \in (strategy.slow_period + strategy.signal_period - 2)..(Len(closes) - 1) :
            /\ ~IsNaN(MacdOfCloses.macd_line[i + 1])
            /\ ~IsNaN(MacdOfCloses.signal_line[i + 1])
            /\ MacdOfCloses.histogram[i + 1] =
                  RSub(MacdOfCloses.macd_line[i + 1], MacdOfCloses.signal_line[i + 1])

\* what the code does instead: with slow_period > 1 the signal line is
\* undefined at every index, whatever the length of the series
C13_MacdSignalLineUndefined ==
    (strategy.kind = "macd" /\ strategy.slow_period > 1) =>
        \A i \in 1..Len(closes) :
            /\ IsNaN(MacdOfCloses.signal_line[i])
            /\ IsNaN(MacdOfCloses.histogram[i])

\* the minimum bar index C14 states for each strategy
ClaimedMinimum(st) ==
    CASE st.kind = "ema_crossover" -> st.slow_period + 1
      [] st.kind = "rsi_reversal" -> st.period + 2
      [] st.kind = "breakout" -> st.lookback + 5
      [] st.kind = "macd" -> st.slow_period + st.signal_period + 2

\* C14: called for a latest bar whose index is below the strategy's minimum,
\* generate_signal returns, for every position flag, HOLD at the bar's close
\* with the insufficient-data reason and neither stop-loss nor take-profit; the
\* simulator got such a signal on every bar below the minimum, and no Trade
\* Record of the run has an entry index below the minimum.
C14_HoldBelowMinimum ==
    /\ (closes # <<>> /\ Len(closes) - 1 < ClaimedMinimum(strategy)) =>
          \A p \in PositionFlags :
              LatestSignal(p) = [signal_type |-> "HOLD", price |-> Last(closes),
                                 stop_loss |-> None, take_profit |-> None,
                                 reason |-> "Insufficient data"]
    /\ (idx > 0 /\ idx - 1 < ClaimedMinimum(strategy)) =>
          /\ signal.signal_type = "HOLD" /\ signal.reason = "Insufficient data"
          /\ trades = <<>> /\ position = 0
    /\ \A k \in 1..Len(trades) : trades[k].entry_date >= Timestamp(ClaimedMinimum(strategy))

\* C14 witness: the last bar below the minimum was answered with the
\* insufficient-data HOLD, although a FLAT caller would get a BUY had the
\* strategy looked at the data one bar earlier
C14_Witness ==
    /\ pc = "loop" /\ run = "first" /\ idx = ClaimedMinimum(strategy)
    /\ signal.signal_type = "HOLD" /\ signal.reason = "Insufficient data"
    /\ strategy.kind = "ema_crossover"
    /\ EMACrossoverEarly(strategy, idx - 1, highs, lows, closes, volumes, 0).signal_type
          = "BUY"

\* a returned run whose first trade was entered on the minimum bar itself
C14_WitnessFirstEntry ==
    /\ pc = "done" /\ trades # <<>>
    /\ trades[1].entry_date = Timestamp(ClaimedMinimum(strategy))

C15_WitnessSell ==
    /\ pc = "loop" /\ run = "first" /\ idx > 0
    /\ strategy.kind = "breakout"
    /\ signal.signal_type = "SELL"
    /\ signal.take_profit[1] < signal.price /\ signal.price < signal.stop_loss[1]

\* C16: a strategy identifier outside the four is answered at once with an
\* error that lists the four valid identifiers, and no simulation is run.
C16_UnknownStrategyError ==
    pc = "failed" =>
        /\ error # None
        /\ error[1].identifier \notin {"ema_crossover", "rsi_reversal", "breakout", "macd"}
        /\ error[1].valid_options = {"ema_crossover", "rsi_reversal", "breakout", "macd"}
        /\ run = "none" /\ trades = <<>> /\ equity_curve = <<>> /\ closes = <<>>

\* what the code does: the identifier is turned down before any simulation, and
\* only run_backtest lists the valid identifiers
C16_UnknownStrategyRejected ==
    pc = "failed" =>
        /\ error # None
        /\ error[1].identifier \notin {"ema_crossover", "rsi_reversal", "breakout", "macd"}
        /\ error[1].raised = "HTTPException 400" /\ error[1].valid_options # {} =>
              error[1].valid_options = {"ema_crossover", "rsi_reversal", "breakout", "macd"}
        /\ run = "none" /\ trades = <<>> /\ equity_curve = <<>> /\ closes = <<>>

----------------------------------------------------------------------------
(* Claims about the indicator service and the windowed primitives *)

\* every candle of the series is valid: prices above zero, the high at or above
\* the close, the low at or below it, the volume not negative
ValidCandles ==
    \A i \in 1..Len(closes) :
        /\ lows[i] > 0
        /\ highs[i] >= closes[i] /\ lows[i] <= closes[i]
        /\ volumes[i] >= 0

\* C17: calculate_for_symbol raises the insufficient-data error for fewer than
\* 20 bars, and for every series of 20 or more valid bars it returns a snapshot
\* without raising, with or without a portfolio value.
C17_SnapshotFromValidCandles ==
    (pc = "calculated" /\ ValidCandles) =>
        IF nbars < 20
        THEN error = Some([raised |-> "ValueError", text |-> "Insufficient data"])
        ELSE error = None /\ output # None

\* the arrays a primitive returned are as long as the series and undefined
\* throughout
AllUndefined(arrays) ==
    \A k \in 1..Len(arrays) :
        /\ Len(arrays[k]) = nbars
        /\ \A i \in 1..nbars : IsNaN(arrays[k][i])

\* C18: each windowed primitive, given a sequence shorter than its minimum
\* window, the empty sequence and 19 bars for a 20-bar window included, returns
\* output sequences as long as the input whose every element is the undefined
\* sentinel.
C18_ShortInputAllUndefined ==
    pc = "primitives" =>
        \A name \in DOMAIN output[1] :
            nbars < MinimumWindow(name, Window) => AllUndefined(output[1][name])

\* 19 bars with a 20-bar window: every primitive has returned undefined arrays of
\* 19 elements
C18_Witness ==
    /\ pc = "primitives"
    /\ nbars = Window - 1
    /\ \A name \in DOMAIN output[1] : AllUndefined(output[1][name])
    /\ Len(output[1].bollinger_bands) = 5

\* the empty sequence: every primitive has returned empty arrays
C18_WitnessEmpty ==
    /\ pc = "primitives"
    /\ nbars = 0
    /\ \A name \in DOMAIN output[1] : \A k \in 1..Len(output[1][name]) :
           output[1][name][k] = <<>>

\* a series as long as the window: the moving averages have a defined last value
C18_WitnessFullWindow ==
    /\ pc = "primitives"
    /\ nbars = Window
    /\ ~IsNaN(output[1].sma[1][nbars])
    /\ ~IsNaN(output[1].atr[1][nbars])
    /\ IsNaN(output[1].rsi[1][nbars])

\* C22: for every period p >= 1 and every input of length >= p, ema() returns a
\* sequence of the same length that is undefined at every index < p-1, equals
\* the simple average of the first p inputs at index p-1, and satisfies
\* EMA[i] = data[i]*m + EMA[i-1]*(1-m) for every i >= p, with m = 2/(p+1).
\* (Indexes from 1 here: undefined below p, the average at p, the recurrence
\* above p.)
C22_EmaSeedAndRecurrence ==
    (pc = "averages" /\ nbars >= output[1].period) =>
        \A p \in {output[1].period} : \A m \in {Rat(2, p + 1)} :
        \A data \in {ToRat(closes)} : \A e \in {output[1].ema} :
            /\ Len(e) = Len(data)
            /\ \A i \in 1..(p - 1) : IsNaN(e[i])
            /\ e[p] = RDiv(RSum(SubSeq(data, 1, p)), R(p))
            /\ \A i \in (p + 1)..Len(data) :
                  e[i] = RAdd(RMul(data[i], m), RMul(e[i - 1], RSub(R(1), m)))

\* a period of 3 on a series whose first three closes are not all the same and
\* whose last close moves the average
C22_Witness ==
    /\ pc = "averages"
    /\ output[1].period = 3
    /\ nbars > 3
    /\ closes[1] # closes[3]
    /\ IsNaN(output[1].ema[2])
    /\ output[1].ema[nbars] # output[1].ema[nbars - 1]

\* the window as the period on a series as long as the window
C22_WitnessWindow ==
    /\ pc = "averages"
    /\ output[1].period = Window
    /\ nbars = Window
    /\ ~IsNaN(output[1].ema[nbars])

\* the deltas of the closes up to close i, indexes from 1
DeltasTo(i) == {closes[j + 1] - closes[j] : j \in 1..(i - 1)}

\* C23: for every close series of length >= period+1, every defined value of
\* rsi() lies in [0, 100]; the value is 100 whenever the smoothed average loss
\* is 0, which with averages of losses that are never negative is whenever no
\* delta so far is a loss, in particular when every delta so far is a gain, and
\* never a division error; it is 0 when every delta so far is a loss.
C23_RsiRange ==
    (pc = "averages" /\ nbars >= output[1].period + 1) =>
        \A r \in {output[1].rsi} :
            /\ Len(r) = nbars
            /\ \A i \in 1..nbars :
                  /\ IsNaN(r[i]) <=> i <= output[1].period
                  /\ ~IsNaN(r[i]) => RGe(r[i], R(0)) /\ RLe(r[i], R(100))
                  /\ (i > output[1].period /\ \A d \in DeltasTo(i) : d >= 0)
                        => r[i] = R(100)
                  /\ (i > output[1].period /\ \A d \in DeltasTo(i) : d < 0)
                        => r[i] = R(0)

\* values of 100, of 0 and between: no loss so far, every delta a loss, and gains
\* and losses both
C23_Witness ==
    /\ pc = "averages"
    /\ nbars >= output[1].period + 1
    /\ \A d \in DeltasTo(nbars) : d < 0
    /\ output[1].rsi[nbars] = R(0)

C23_WitnessNoLoss ==
    /\ pc = "averages"
    /\ nbars >= output[1].period + 1
    /\ \E d \in DeltasTo(nbars) : d > 0
    /\ \A d \in DeltasTo(nbars) : d >= 0
    /\ output[1].rsi[nbars] = R(100)

C23_WitnessBetween ==
    /\ pc = "averages"
    /\ nbars >= output[1].period + 1
    /\ RGt(output[1].rsi[nbars], R(0)) /\ RLt(output[1].rsi[nbars], R(100))

----------------------------------------------------------------------------
(* Claims about the Trade Records of a run *)

\* C27: across any run of the simulator the number of Trade Records equals the
\* number of positions opened (each opened position is closed exactly once: by
\* stop/target, by an opposing signal, or by the forced close), and every Trade
\* Record has quantity >= 1 with pnl = (exit - entry) * quantity for LONG and
\* (entry - exit) * quantity for SHORT.  At most one position is opened on a
\* bar, so the records are as many as the positions exactly when no two of
\* them carry the same entry date.
C27_OneRecordPerPosition ==
    /\ \A i, j \in 1..Len(trades) :
          trades[i].entry_date = trades[j].entry_date => i = j
    /\ \A i \in 1..Len(trades) :
          /\ trades[i].quantity >= 1
          /\ trades[i].pnl =
                IF trades[i].direction = "LONG"
                THEN (trades[i].exit_price - trades[i].entry_price) * trades[i].quantity
                ELSE (trades[i].entry_price - trades[i].exit_price) * trades[i].quantity

\* the part of C27 that holds: the pnl of every Trade Record
C27_PnlOfEveryRecord ==
    \A i \in 1..Len(trades) :
        trades[i].pnl =
            IF trades[i].direction = "LONG"
            THEN (trades[i].exit_price - trades[i].entry_price) * trades[i].quantity
            ELSE (trades[i].entry_price - trades[i].exit_price) * trades[i].quantity

\* C28: a position's stop-loss and take-profit are first checked on the bar
\* after the one it was opened on, never on its entry bar: every Trade Record
\* closed by stop or target has hold_duration >= 1, and no Trade Record has a
\* negative hold_duration; a position opened on the last bar is closed only by
\* the forced close, with hold_duration 0.
C28_ExitAfterEntryBar ==
    /\ \A i \in 1..Len(trades) :
          /\ trades[i].hold_duration >= 0
          /\ trades[i].hold_duration = trades[i].exit_date - trades[i].entry_date
          /\ trades[i].exit_reason \in {"Stop loss hit", "Take profit hit"}
                => trades[i].hold_duration >= 1
    /\ (pc \in {"simulated", "done"} /\ position # 0 /\ entry_idx = nbars - 1) =>
          /\ Last(trades).exit_reason = "End of backtest period"
          /\ Last(trades).hold_duration = 0
          /\ \A i \in 1..Len(trades) :
                trades[i].entry_date = Timestamp(nbars - 1) => i = Len(trades)

\* a position closed by its stop or target on the bar after its entry bar
C28_Witness ==
    /\ trades # <<>>
    /\ Last(trades).exit_reason \in {"Stop loss hit", "Take profit hit"}
    /\ Last(trades).hold_duration = 1
    /\ Last(trades).quantity >= 1

\* a position opened on the last bar and closed by the forced close
C28_WitnessLastBar ==
    /\ pc = "simulated"
    /\ nbars > 1
    /\ position # 0 /\ entry_idx = nbars - 1 /\ quantity >= 1
    /\ Last(trades).exit_reason = "End of backtest period"
    /\ Last(trades).hold_duration = 0

----------------------------------------------------------------------------
(* Claims about the trend direction *)

\* the value of an average of the closes one bar before the last one
EmaBefore(period) == ema(ToRat(closes), period)[nbars - 1]

\* price, EMA21 and EMA50 each above, or each below, their value one bar earlier
EachRising ==
    /\ closes[nbars] > closes[nbars - 1]
    /\ RGt(output[1].ema_21, EmaBefore(EMA_MID))
    /\ RGt(output[1].ema_50, EmaBefore(EMA_SLOW))

EachFalling ==
    /\ closes[nbars] < closes[nbars - 1]
    /\ RLt(output[1].ema_21, EmaBefore(EMA_MID))
    /\ RLt(output[1].ema_50, EmaBefore(EMA_SLOW))

OrderedUp ==
    /\ RGt(R(closes[nbars]), output[1].ema_21)
    /\ RGt(output[1].ema_21, output[1].ema_50)

OrderedDown ==
    /\ RLt(R(closes[nbars]), output[1].ema_21)
    /\ RLt(output[1].ema_21, output[1].ema_50)

\* C24 as stated: the trend direction is BULLISH if the current price, EMA21 and
\* EMA50 are each rising (above their value one bar earlier) and ordered
\* price > EMA21 > EMA50, BEARISH under the mirror condition (each falling and
\* price < EMA21 < EMA50), and SIDEWAYS otherwise.  Stated on the series on
\* which both averages have a value one bar earlier.
C24_TrendByRiseAndOrder ==
    (pc = "trend" /\ nbars > EMA_SLOW) =>
        output[1].trend_direction =
            IF EachRising /\ OrderedUp THEN "BULLISH"
            ELSE IF EachFalling /\ OrderedDown THEN "BEARISH"
            ELSE "SIDEWAYS"

\* C24 amended: the trend direction is BULLISH exactly when price > EMA21 > EMA50,
\* BEARISH exactly when price < EMA21 < EMA50, and SIDEWAYS otherwise, whether or
\* not any of the three is rising or falling; EMA21 and EMA50 are the last
\* defined values of the averages of the closes.
C24_TrendByOrder ==
    (pc = "trend" /\ nbars >= EMA_SLOW) =>
        /\ output[1].ema_21 = Last(ema(ToRat(closes), EMA_MID))
        /\ output[1].ema_50 = Last(ema(ToRat(closes), EMA_SLOW))
        /\ output[1].trend_direction =
              IF OrderedUp THEN "BULLISH"
              ELSE IF OrderedDown THEN "BEARISH"
              ELSE "SIDEWAYS"

\* a BULLISH trend whose price is not above the price one bar earlier
C24_Witness ==
    /\ pc = "trend"
    /\ nbars > EMA_SLOW
    /\ output[1].trend_direction = "BULLISH"
    /\ closes[nbars] <= closes[nbars - 1]

\* a BEARISH trend, and a SIDEWAYS one on a series with both averages defined
\* and different
C24_WitnessBearish ==
    /\ pc = "trend"
    /\ nbars >= EMA_SLOW
    /\ output[1].trend_direction = "BEARISH"

C24_WitnessSideways ==
    /\ pc = "trend"
    /\ nbars >= EMA_SLOW
    /\ output[1].trend_direction = "SIDEWAYS"
    /\ output[1].ema_21 # output[1].ema_50

\* C29: for every series of 20 to 49 bars the trend direction is SIDEWAYS whatever
\* the prices, because an EMA50 that is still undefined is replaced by the
\* current close, which is neither above nor below itself.
C29_ShortSeriesSideways ==
    (pc = "trend" /\ nbars >= MIN_CANDLES /\ nbars < EMA_SLOW) =>
        /\ \A i \in 1..nbars : IsNaN(ema(ToRat(closes), EMA_SLOW)[i])
        /\ output[1].ema_50 = R(closes[nbars])
        /\ output[1].trend_direction = "SIDEWAYS"

\* a series of 49 bars whose price is above EMA21, and EMA21 above the earliest
\* close
C29_Witness ==
    /\ pc = "trend"
    /\ nbars = EMA_SLOW - 1
    /\ RGt(R(closes[nbars]), output[1].ema_21)
    /\ RGt(output[1].ema_21, R(closes[1]))
    /\ output[1].trend_direction = "SIDEWAYS"

----------------------------------------------------------------------------
(* Claims about the detectors *)

\* the highest high and the lowest low of the 20 bars up to the current one
\* without the last 3 of them, and 19 times the average volume of the 19 bars
\* before the current one
TrailingHigh ==
    CHOOSE h \in {highs[i] : i \in (nbars - 19)..(nbars - 3)} :
        \A i \in (nbars - 19)..(nbars - 3) : highs[i] <= h
TrailingLow ==
    CHOOSE l \in {lows[i] : i \in (nbars - 19)..(nbars - 3)} :
        \A i \in (nbars - 19)..(nbars - 3) : lows[i] >= l
RECURSIVE VolumeSum(_, _)
VolumeSum(from, to) ==
    IF from > to THEN 0 ELSE volumes[to] + VolumeSum(from, to - 1)
TrailingVolume == VolumeSum(nbars - 19, nbars - 1)

\* 50 + 20 * (volume ratio - 1.5) + 10 * (percent extension beyond the level),
\* capped at 100; the volume ratio is infinite over an average volume of zero
ClaimedBreakoutScore(level) ==
    IF TrailingVolume = 0 THEN R(100)
    ELSE RMin(R(100),
              RAdd(R(50),
                   RAdd(RMul(R(20), RSub(Rat(19 * volumes[nbars], TrailingVolume),
                                         Rat(3, 2))),
                        RMul(R(10), Rat(100 * Abs(closes[nbars] - level), level)))))

\* C25 as stated: detect_breakout reports a BULLISH breakout exactly when the
\* current close is above the highest high of the trailing lookback window
\* excluding the last 3 bars and the current volume is >= 1.5 times the trailing
\* average volume, and a BEARISH breakdown under the symmetric condition on the
\* lowest low; the score is 50 + 20*(volume ratio - 1.5) + 10*(percent price
\* extension beyond the broken level), capped at 100 and never below 50;
\* otherwise it returns detected=false with score 0.  Stated on the series of
\* 25 bars and more.
C25_BreakoutFromOneAndAHalf ==
    (pc = "detected" /\ nbars >= LOOKBACK + 5) =>
        \A b \in {output[1].breakout} :
            IF closes[nbars] > TrailingHigh
               /\ 2 * 19 * volumes[nbars] >= 3 * TrailingVolume
            THEN b = PatternResult(TRUE, "BULLISH", ClaimedBreakoutScore(TrailingHigh))
                 /\ RGe(b.score, R(50))
            ELSE IF closes[nbars] < TrailingLow
                    /\ 2 * 19 * volumes[nbars] >= 3 * TrailingVolume
            THEN b = PatternResult(TRUE, "BEARISH", ClaimedBreakoutScore(TrailingLow))
                 /\ RGe(b.score, R(50))
            ELSE b = NoPattern

\* C25 amended: on a series of 25 bars or more detect_breakout reports a BULLISH
\* breakout exactly when the current close is above the highest high of the
\* trailing lookback window excluding the last 3 bars and the current volume is
\* more than 1.5 times the trailing average volume, and a BEARISH breakdown
\* under the symmetric condition on the lowest low; the score is as stated,
\* above 50 and at most 100; otherwise, and on every shorter series, it returns
\* detected=false with score 0.
C25_BreakoutAboveOneAndAHalf ==
    pc = "detected" =>
        \A b \in {output[1].breakout} :
            IF nbars < LOOKBACK + 5 THEN b = NoPattern
            ELSE IF closes[nbars] > TrailingHigh
                    /\ 2 * 19 * volumes[nbars] > 3 * TrailingVolume
            THEN b = PatternResult(TRUE, "BULLISH", ClaimedBreakoutScore(TrailingHigh))
                 /\ RGt(b.score, R(50)) /\ RLe(b.score, R(100))
            ELSE IF closes[nbars] < TrailingLow
                    /\ 2 * 19 * volumes[nbars] > 3 * TrailingVolume
            THEN b = PatternResult(TRUE, "BEARISH", ClaimedBreakoutScore(TrailingLow))
                 /\ RGt(b.score, R(50)) /\ RLe(b.score, R(100))
            ELSE b = NoPattern

\* a close above the trailing high on a volume of exactly 1.5 times the
\* average: no breakout
C25_Witness ==
    /\ pc = "detected"
    /\ nbars >= LOOKBACK + 5
    /\ closes[nbars] > TrailingHigh
    /\ volumes[nbars] > 0
    /\ 2 * 19 * volumes[nbars] = 3 * TrailingVolume
    /\ output[1].breakout = NoPattern

\* a BULLISH breakout with a score between 50 and 100 over a high among the last
\* 3 bars, and a BEARISH breakdown
C25_WitnessBullish ==
    /\ pc = "detected"
    /\ output[1].breakout.detected
    /\ output[1].breakout.signal = "BULLISH"
    /\ RLt(output[1].breakout.score, R(100))
    /\ highs[nbars - 1] > closes[nbars]

C25_WitnessBearish ==
    /\ pc = "detected"
    /\ output[1].breakout.detected
    /\ output[1].breakout.signal = "BEARISH"

\* open, high, low and close of every bar are one constant price
ConstantPrice ==
    \A i \in 1..nbars :
        highs[i] = closes[1] /\ lows[i] = closes[1] /\ closes[i] = closes[1]

\* the detectors a scan is limited to
ThreeDetectors == <<"breakout", "momentum", "volume_spike">>

C26_WitnessNoSpike ==
    /\ pc = "detected"
    /\ nbars = SCAN_MIN_CANDLES
    /\ ConstantPrice
    /\ volumes[nbars] > 0
    /\ output[1].volume_spike = NoPattern

----------------------------------------------------------------------------
(* Claims about batches *)

\* calculate_for_symbol raises for the symbol
ExecuteFails(symbol) == CalculateSymbol(symbol).raised # ""

\* the scan of the symbol fails: its data cannot be fetched or is too short
ScanFails(symbol) ==
    \/ MarketData(symbol).fetch = "raises"
    \/ Len(MarketData(symbol).ohlcv) < SCAN_MIN_CANDLES

\* C19: in a multi-symbol batch (execute, scan_multiple) the batch call does not
\* fail; a symbol whose computation fails is left out of the result, with no
\* part of it in the output; every other symbol's result is computed and is in
\* the result of execute whole, and in the list of scan_multiple whole if it
\* passes the filters of the scan.
C19_FailedSymbolLeftOut ==
    /\ pc # "failed" /\ error = None
    /\ pc = "executed" =>
          /\ DOMAIN output[1] =
                {symbols[i] : i \in {j \in 1..Len(symbols) : ~ExecuteFails(symbols[j])}}
          /\ \A s \in DOMAIN output[1] : output[1][s] = CalculateSymbol(s)
    /\ pc = "scanned" =>
          /\ \A k \in 1..Len(output[1]) :
                /\ ~ScanFails(output[1][k].symbol)
                /\ Some(output[1][k]) = scan_symbol(output[1][k].symbol, patterns)
          /\ \A i \in 1..Len(symbols) :
                (/\ ~ScanFails(symbols[i])
                 /\ IsValidResult(scan_symbol(symbols[i], patterns), min_score, signal_filter))
                => \E k \in 1..Len(output[1]) : output[1][k].symbol = symbols[i]

\* execute has returned: a symbol that failed comes before one that did not, the
\* first is not in the results and the second is
C19_Witness ==
    /\ pc = "executed"
    /\ \E i, j \in 1..Len(symbols) :
          /\ i < j
          /\ ExecuteFails(symbols[i]) /\ ~ExecuteFails(symbols[j])
          /\ symbols[i] \notin DOMAIN output[1]
          /\ symbols[j] \in DOMAIN output[1]

\* scan_multiple has returned: a symbol whose scan failed comes before one whose
\* scan is in the list
C19_WitnessScan ==
    /\ pc = "scanned"
    /\ \E i, j \in 1..Len(symbols) :
          /\ i < j
          /\ ScanFails(symbols[i])
          /\ \E k \in 1..Len(output[1]) : output[1][k].symbol = symbols[j]

\* the scan of the symbol found a pattern, scores min_score or more and has the
\* dominant signal the filter asks for
Qualifies(symbol) ==
    LET scanned == scan_symbol(symbol, patterns)
    IN  /\ scanned # None
        /\ scanned[1].patterns_found # <<>>
        /\ scanned[1].total_score >= min_score
        /\ signal_filter # None => scanned[1].dominant_signal = signal_filter[1]

\* the symbols of the list scan_multiple returned are the scanned symbols that
\* qualify, and the list is ordered by total score, highest first
C20_QualifyingSymbolsInOrder ==
    pc = "scanned" =>
        /\ {output[1][k].symbol : k \in 1..Len(output[1])} =
              {symbols[i] : i \in {j \in 1..Len(symbols) : Qualifies(symbols[j])}}
        /\ \A k \in 1..(Len(output[1]) - 1) :
              output[1][k].total_score >= output[1][k + 1].total_score

\* C20: scan_multiple returns exactly the symbols whose scan produced at least
\* one detected pattern, whose total score is >= min_score and whose dominant
\* signal equals the signal filter when one is given; the list is ordered by
\* total score, highest first, and contains each scanned symbol at most once.
C20_ScanMultipleResult ==
    pc = "scanned" =>
        /\ {output[1][k].symbol : k \in 1..Len(output[1])} =
              {symbols[i] : i \in {j \in 1..Len(symbols) : Qualifies(symbols[j])}}
        /\ \A k \in 1..(Len(output[1]) - 1) :
              output[1][k].total_score >= output[1][k + 1].total_score
        /\ \A j, k \in 1..Len(output[1]) :
              j # k => output[1][j].symbol # output[1][k].symbol

----------------------------------------------------------------------------
(* Claims about the scan of one symbol *)

\* the requests, by their place in the list, whose detector detected its pattern
DetectedRequests ==
    {i \in 1..Len(Requested(patterns)) :
        /\ Requested(patterns)[i] \in DOMAIN detections
        /\ detections[Requested(patterns)[i]].detected}

\* the sum of the scores the detectors of a set of requests returned
RECURSIVE ScoreOf(_)
ScoreOf(requests) ==
    IF requests = {} THEN 0
    ELSE LET i == CHOOSE i \in requests : TRUE
         IN  detections[Requested(patterns)[i]].score + ScoreOf(requests \ {i})

\* how many requests of a set have a detector that returned the signal
SignalCount(requests, sig) ==
    Cardinality({i \in requests : detections[Requested(patterns)[i]].signal = sig})

\* C21: for a per-symbol scan, total_score is the sum of the scores of the
\* detected patterns among the requested detectors, results with detected=false
\* adding nothing to the score or to the counts, and dominant_signal is BULLISH
\* if more detected patterns are bullish than bearish, BEARISH if more are
\* bearish, NEUTRAL on a tie or when nothing is detected.  A detector that is
\* requested twice runs twice, and what it detects is two detected patterns.
C21_ScoreAndDominantSignal ==
    pc = "scanned_one" =>
        /\ output[1].total_score = ScoreOf(DetectedRequests)
        /\ Len(output[1].patterns_found) = Cardinality(DetectedRequests)
        /\ output[1].dominant_signal =
              IF SignalCount(DetectedRequests, "BULLISH")
                    > SignalCount(DetectedRequests, "BEARISH") THEN "BULLISH"
              ELSE IF SignalCount(DetectedRequests, "BEARISH")
                    > SignalCount(DetectedRequests, "BULLISH") THEN "BEARISH"
              ELSE "NEUTRAL"

\* three requested detectors: one detects a bullish pattern, one a bearish
\* pattern, one returns a result that is not detected
C21_Witness ==
    /\ pc = "scanned_one"
    /\ Len(Requested(patterns)) = 3
    /\ Cardinality(DetectedRequests) = 2
    /\ \E i \in 1..3 : detections[Requested(patterns)[i]] = PatternResult(FALSE, "BULLISH", 40)
    /\ output[1].total_score = 90
    /\ output[1].dominant_signal = "NEUTRAL"

\* all eight detectors requested, nothing detected: score 0 and NEUTRAL
C21_WitnessNothingDetected ==
    /\ pc = "scanned_one"
    /\ patterns = None
    /\ DetectedRequests = {}
    /\ output[1].total_score = 0 /\ output[1].dominant_signal = "NEUTRAL"

\* more bearish than bullish patterns detected
C21_WitnessBearish ==
    /\ pc = "scanned_one"
    /\ output[1].dominant_signal = "BEARISH"
    /\ SignalCount(DetectedRequests, "BULLISH") = 1

----------------------------------------------------------------------------
(* Claims about the queues of the SSE clients *)

\* no registered queue holds more ticks than the queues are made for
QueuesWithinMaxsize ==
    \A client_id \in DOMAIN sse_queues : Len(sse_queues[client_id]) <= maxsize

\* the step is a broadcast of some tick, and after it every registered queue
\* is the queue before it with the tick appended, less its oldest tick when
\* it was full
BroadcastDelivers ==
    \A task \in tick_tasks \ tick_tasks' :
        task.at = "broadcast" =>
        /\ DOMAIN sse_queues' = DOMAIN sse_queues
        /\ \A client_id \in DOMAIN sse_queues' :
              /\ sse_queues'[client_id] # <<>>
              /\ Last(sse_queues'[client_id]) = task.tick
              /\ sse_queues'[client_id] =
                    IF Len(sse_queues[client_id]) < maxsize
                    THEN Append(sse_queues[client_id], task.tick)
                    ELSE Append(Tail(sse_queues[client_id]), task.tick)

\* C30: however the tick tasks interleave with clients registering and
\* leaving, no registered queue ever holds more than maxsize ticks, and a
\* broadcast leaves its tick as the newest element of every registered queue:
\* a full queue loses its oldest tick to make room, and the queues of the
\* other clients receive the tick all the same.
C30_BroadcastReachesEveryQueue ==
    [] QueuesWithinMaxsize /\ [][BroadcastDelivers]_vars

\* every tick the feed delivered has been broadcast, more of them than a
\* queue holds; one client's queue is full and has lost the first tick,
\* another's is not full, and both have the tick of the last broadcast as
\* their newest element
C30_Witness ==
    /\ ticks_received > maxsize
    /\ tick_tasks = {}
    /\ last_tick # None
    /\ \E full \in DOMAIN sse_queues, other \in DOMAIN sse_queues :
          /\ Len(sse_queues[full]) = maxsize
          /\ sse_queues[full][1] > 1
          /\ Last(sse_queues[full]) = last_tick[1]
          /\ sse_queues[other] # <<>>
          /\ Len(sse_queues[other]) < maxsize
          /\ Last(sse_queues[other]) = last_tick[1]

============================================================================
